---- MODULE Spec2Model ----
(***************************************************************************)
(* Singapore Mahjong rules engine: turn state machine, claim resolution,   *)
(* kong replacement and winning-hand decomposition.                        *)
(*                                                                         *)
(* A tile is a number  suit*100 + value*10 + copy.  Suits are numbered in  *)
(* the lexicographic order of their names, which is the order sortedKeys() *)
(* of the hand parser iterates in:                                         *)
(*   1 bamboo, 2 characters, 3 dots, 4 dragons, 5 winds,                   *)
(*   6 flowers, 7 seasons, 8 animals (the three bonus suits).              *)
(* Honor values are numbered in the order of their names as well:          *)
(*   dragons 1 green, 2 red, 3 white; winds 1 east, 2 north, 3 south,      *)
(*   4 west.  The kind of a tile (its tileKey) is tile \div 10.            *)
(***************************************************************************)
EXTENDS Integers, Sequences, FiniteSets, TLC

\* ------------------------------------------------------------------------
\* Tiles
\* ------------------------------------------------------------------------

Null == -1

NumberedSuits == {1, 2, 3}

NumberedKinds == {s * 10 + v : s \in NumberedSuits, v \in 1..9}

HonorKinds == {40 + v : v \in 1..3} \cup {50 + v : v \in 1..4}

HandKinds == NumberedKinds \cup HonorKinds

BonusKinds == {s * 10 + v : s \in {6, 7, 8}, v \in 1..4}

AllTiles == {k * 10 + c : k \in HandKinds, c \in 1..4} \cup {k * 10 + 1 : k \in BonusKinds}

TileSetSize == 148

tileKey(t) == t \div 10

suitOf(t) == t \div 100

valueOf(t) == (t \div 10) % 10

isBonus(t) == suitOf(t) >= 6

tilesMatch(a, b) == suitOf(a) = suitOf(b) /\ valueOf(a) = valueOf(b)

\* ------------------------------------------------------------------------
\* Sequence helpers (Array.prototype.findIndex / splice / filter)
\* ------------------------------------------------------------------------

Range(seq) == {seq[i] : i \in 1..Len(seq)}

\* index of the first element satisfying the test, 0 when there is none
FirstIndexOfId(seq, id) ==
    IF \E i \in 1..Len(seq) : seq[i] = id
    THEN CHOOSE i \in 1..Len(seq) : seq[i] = id /\ \A j \in 1..(i - 1) : seq[j] # id
    ELSE 0

FirstIndexOfKey(seq, key) ==
    IF \E i \in 1..Len(seq) : tileKey(seq[i]) = key
    THEN CHOOSE i \in 1..Len(seq) :
             tileKey(seq[i]) = key /\ \A j \in 1..(i - 1) : tileKey(seq[j]) # key
    ELSE 0

RemoveAt(seq, i) == SubSeq(seq, 1, i - 1) \o SubSeq(seq, i + 1, Len(seq))

countInHand(tiles, key) == Cardinality({i \in 1..Len(tiles) : tileKey(tiles[i]) = key})

\* removeOneTile: drops the first tile of the given kind, if any
removeOneTile(hand, key) ==
    LET idx == FirstIndexOfKey(hand, key)
    IN  IF idx = 0 THEN hand ELSE RemoveAt(hand, idx)

\* the tile removeOneTile returns (Null when none matches)
removedTile(hand, key) ==
    LET idx == FirstIndexOfKey(hand, key)
    IN  IF idx = 0 THEN Null ELSE hand[idx]

\* ------------------------------------------------------------------------
\* Hand parser
\* ------------------------------------------------------------------------

\* counts: a Map from the kinds present to their number of tiles
tilesToCounts(tiles) ==
    [k \in {tileKey(tiles[i]) : i \in 1..Len(tiles)} |-> countInHand(tiles, k)]

\* counts.get(k) || 0
Get(counts, k) == IF k \in DOMAIN counts THEN counts[k] ELSE 0

countsSize(counts) == Cardinality(DOMAIN counts)

RECURSIVE SumOver(_, _)
SumOver(counts, ks) ==
    IF ks = {} THEN 0
    ELSE LET k == CHOOSE x \in ks : TRUE
         IN  counts[k] + SumOver(counts, ks \ {k})

countsTotal(counts) == SumOver(counts, DOMAIN counts)

ORPHAN_KEYS == {11, 19, 31, 39, 21, 29, 51, 53, 54, 52, 42, 41, 43}

\* checkThirteenOrphans not returning at a terminal or honor that is missing
checkThirteenOrphansLoose(counts) ==
    /\ countsSize(counts) <= 13
    /\ \A k \in ORPHAN_KEYS : Get(counts, k) <= 2
    /\ Cardinality({k \in ORPHAN_KEYS : Get(counts, k) = 2}) <= 1
    /\ countsTotal(counts) = 14
    /\ \E k \in ORPHAN_KEYS : Get(counts, k) = 2

checkThirteenOrphans(counts) ==
    /\ countsSize(counts) <= 13
    /\ \A k \in ORPHAN_KEYS : Get(counts, k) >= 1 /\ Get(counts, k) <= 2
    /\ Cardinality({k \in ORPHAN_KEYS : Get(counts, k) = 2}) <= 1
    /\ countsTotal(counts) = 14
    /\ \E k \in ORPHAN_KEYS : Get(counts, k) = 2

\* checkSevenPairs taking any even counts for pairs
checkSevenPairsEven(counts) ==
    \A k \in DOMAIN counts : counts[k] % 2 = 0

checkSevenPairs(counts) ==
    /\ countsSize(counts) = 7
    /\ \A k \in DOMAIN counts : counts[k] = 2

\* a meld of a decomposition: its type and the kind of its first tile
DMeld(type, key) == [type |-> type, key |-> key]

SetPair(results, key) == [i \in 1..Len(results) |-> [results[i] EXCEPT !.pair = key]]

\* findDecompositions trying a run only where no triplet can be taken
RECURSIVE findDecompositionsPungFirst(_, _, _)
findDecompositionsPungFirst(counts, melds, pairChosen) ==
    LET remaining == countsTotal(counts)
        live == {k \in DOMAIN counts : counts[k] > 0}
    IN
    IF remaining = 0 /\ Len(melds) = 4 /\ pairChosen
    THEN << [melds |-> melds, pair |-> 0] >>
    ELSE IF live = {} THEN << >>
    ELSE
      LET firstKey == CHOOSE k \in live : \A j \in live : k <= j
          count == counts[firstKey]
          val == firstKey % 10
          key2 == firstKey + 1
          key3 == firstKey + 2
          asPair ==
              IF ~pairChosen /\ count >= 2
              THEN SetPair(findDecompositionsPungFirst([counts EXCEPT ![firstKey] = count - 2],
                                              melds, TRUE), firstKey)
              ELSE << >>
          asPung ==
              IF count >= 3 /\ Len(melds) < 4
              THEN findDecompositionsPungFirst([counts EXCEPT ![firstKey] = count - 3],
                                      Append(melds, DMeld("pung", firstKey)), pairChosen)
              ELSE << >>
          asKong ==
              IF count = 4 /\ Len(melds) < 4
              THEN findDecompositionsPungFirst([counts EXCEPT ![firstKey] = 0],
                                      Append(melds, DMeld("kong", firstKey)), pairChosen)
              ELSE << >>
          asChow ==
              IF /\ firstKey \in NumberedKinds
                 /\ count < 3
                 /\ val <= 7
                 /\ Get(counts, key2) > 0
                 /\ Get(counts, key3) > 0
                 /\ Len(melds) < 4
              THEN findDecompositionsPungFirst([counts EXCEPT ![firstKey] = count - 1,
                                                     ![key2] = counts[key2] - 1,
                                                     ![key3] = counts[key3] - 1],
                                      Append(melds, DMeld("chow", firstKey)), pairChosen)
              ELSE << >>
      IN  asPair \o asPung \o asKong \o asChow

\* pushes every way to split the counts into 4 sets and a pair
RECURSIVE findDecompositions(_, _, _)
findDecompositions(counts, melds, pairChosen) ==
    LET remaining == countsTotal(counts)
        live == {k \in DOMAIN counts : counts[k] > 0}
    IN
    IF remaining = 0 /\ Len(melds) = 4 /\ pairChosen
    THEN << [melds |-> melds, pair |-> 0] >>
    ELSE IF live = {} THEN << >>
    ELSE
      LET firstKey == CHOOSE k \in live : \A j \in live : k <= j
          count == counts[firstKey]
          val == firstKey % 10
          key2 == firstKey + 1
          key3 == firstKey + 2
          asPair ==
              IF ~pairChosen /\ count >= 2
              THEN SetPair(findDecompositions([counts EXCEPT ![firstKey] = count - 2],
                                              melds, TRUE), firstKey)
              ELSE << >>
          asPung ==
              IF count >= 3 /\ Len(melds) < 4
              THEN findDecompositions([counts EXCEPT ![firstKey] = count - 3],
                                      Append(melds, DMeld("pung", firstKey)), pairChosen)
              ELSE << >>
          asKong ==
              IF count = 4 /\ Len(melds) < 4
              THEN findDecompositions([counts EXCEPT ![firstKey] = 0],
                                      Append(melds, DMeld("kong", firstKey)), pairChosen)
              ELSE << >>
          asChow ==
              IF /\ firstKey \in NumberedKinds
                 /\ val <= 7
                 /\ Get(counts, key2) > 0
                 /\ Get(counts, key3) > 0
                 /\ Len(melds) < 4
              THEN findDecompositions([counts EXCEPT ![firstKey] = count - 1,
                                                     ![key2] = counts[key2] - 1,
                                                     ![key3] = counts[key3] - 1],
                                      Append(melds, DMeld("chow", firstKey)), pairChosen)
              ELSE << >>
      IN  asPair \o asPung \o asKong \o asChow

\* the early return of parseHand with a pattern flag left set
InvalidParseFlagged ==
    [valid |-> FALSE, decompositions |-> << >>, sevenPairs |-> TRUE, thirteenOrphans |-> FALSE]

InvalidParse ==
    [valid |-> FALSE, decompositions |-> << >>, sevenPairs |-> FALSE, thirteenOrphans |-> FALSE]

\* parseHand counting only the four-melds-and-a-pair hands as valid
parseHandStandardOnly(tiles) ==
    IF Len(tiles) # 14 THEN InvalidParse
    ELSE IF \E i \in 1..Len(tiles) : isBonus(tiles[i]) THEN InvalidParse
    ELSE
      LET counts == tilesToCounts(tiles)
          decompositions == findDecompositions(counts, << >>, FALSE)
      IN  [valid |-> Len(decompositions) > 0,
           decompositions |-> decompositions,
           sevenPairs |-> checkSevenPairs(counts),
           thirteenOrphans |-> checkThirteenOrphans(counts)]

parseHand(tiles) ==
    IF Len(tiles) # 14 THEN InvalidParse
    ELSE IF \E i \in 1..Len(tiles) : isBonus(tiles[i]) THEN InvalidParse
    ELSE
      LET counts == tilesToCounts(tiles)
          sevenPairs == checkSevenPairs(counts)
          thirteenOrphans == checkThirteenOrphans(counts)
          decompositions == findDecompositions(counts, << >>, FALSE)
      IN  [valid |-> Len(decompositions) > 0 \/ sevenPairs \/ thirteenOrphans,
           decompositions |-> decompositions,
           sevenPairs |-> sevenPairs,
           thirteenOrphans |-> thirteenOrphans]

\* ------------------------------------------------------------------------
\* Game state helpers
\* ------------------------------------------------------------------------

Seats == 0..3

NoResult == [type |-> "null", winnerIndex |-> Null, loserIndex |-> Null, handTiles |-> << >>]

DrawResult == [type |-> "draw", winnerIndex |-> Null, loserIndex |-> Null, handTiles |-> << >>]

Meld(type, tiles, concealed) == [type |-> type, tiles |-> tiles, concealed |-> concealed]

\* a transition that returned normally / that threw (the caller keeps its state)
Ok(s, events) == [ok |-> TRUE, state |-> s, events |-> events]

Throw(s) == [ok |-> FALSE, state |-> s, events |-> << >>]

nextPlayer(index) == (index + 1) % 4

isLeftOf(playerIndex, discardedBy) == nextPlayer(discardedBy) = playerIndex

RECURSIVE FlattenMelds(_)
FlattenMelds(melds) ==
    IF melds = << >> THEN << >>
    ELSE (IF Head(melds).type = "kong" THEN SubSeq(Head(melds).tiles, 1, 3)
          ELSE Head(melds).tiles) \o FlattenMelds(Tail(melds))

\* concealed hand (+ extra tile) + meld tiles, three tiles per kong
reconstructFullHand(player, extraTile) ==
    (IF extraTile # Null THEN Append(player.handTiles, extraTile) ELSE player.handTiles)
        \o FlattenMelds(player.openMelds)

\* bonus tiles at the front of the wall not recognised
LeadingBonusIgnored(w) == 0

\* number of bonus tiles at the front of a wall
RECURSIVE LeadingBonus(_)
LeadingBonus(w) ==
    IF w = << >> THEN 0
    ELSE IF isBonus(Head(w)) THEN 1 + LeadingBonus(Tail(w)) ELSE 0

\* number of bonus tiles at the back of a wall
RECURSIVE TrailingBonus(_)
TrailingBonus(w) ==
    IF w = << >> THEN 0
    ELSE IF isBonus(w[Len(w)]) THEN 1 + TrailingBonus(SubSeq(w, 1, Len(w) - 1)) ELSE 0

Reverse(seq) == [i \in 1..Len(seq) |-> seq[Len(seq) + 1 - i]]

\* the event pair <<x, y>> pushed n times by a replacement loop
RepeatPair(x, y, n) == [i \in 1..(2 * n) |-> IF i % 2 = 1 THEN x ELSE y]

\* ------------------------------------------------------------------------
\* Core turn actions
\* ------------------------------------------------------------------------

\* drawTile replacing a bonus tile from the back of the dead wall
drawTileReplacingFromDeadWall(state) ==
    IF state.phase # "draw" THEN Throw(state)
    ELSE IF Len(state.wall) = 0
    THEN Ok([state EXCEPT !.phase = "roundOver", !.result = DrawResult], << "gameOver" >>)
    ELSE
      LET pi == state.currentPlayerIndex
          dw == state.deadWall
      IN  IF isBonus(Head(state.wall)) /\ dw # << >> /\ ~isBonus(dw[Len(dw)])
          THEN Ok([state EXCEPT !.wall = Tail(@),
                                !.deadWall = SubSeq(dw, 1, Len(dw) - 1),
                                !.players[pi].bonusTiles = Append(@, Head(state.wall)),
                                !.players[pi].handTiles = Append(@, dw[Len(dw)]),
                                !.phase = "postDraw"],
                  << "tileDrawn", "bonusTileDrawn", "tileDrawn", "turnChanged" >>)
          ELSE Ok([state EXCEPT !.wall = Tail(@),
                                !.players[pi].handTiles = Append(@, Head(state.wall)),
                                !.phase = "postDraw"],
                  << "tileDrawn", "turnChanged" >>)

\* drawTile ending the round on an exhausted wall without a gameOver event
drawTileSilentDraw(state) ==
    IF state.phase # "draw" THEN Throw(state)
    ELSE IF Len(state.wall) = 0
    THEN Ok([state EXCEPT !.phase = "roundOver", !.result = DrawResult], << >>)
    ELSE
      LET pi == state.currentPlayerIndex
          n == LeadingBonus(state.wall)
          len == Len(state.wall)
      IN  IF n = len
          THEN Ok([state EXCEPT !.wall = << >>,
                                !.players[pi].bonusTiles = @ \o state.wall,
                                !.phase = "roundOver",
                                !.result = DrawResult],
                  << "tileDrawn" >> \o RepeatPair("bonusTileDrawn", "tileDrawn", n - 1)
                      \o << "bonusTileDrawn", "gameOver" >>)
          ELSE Ok([state EXCEPT !.wall = SubSeq(state.wall, n + 2, len),
                                !.players[pi].bonusTiles = @ \o SubSeq(state.wall, 1, n),
                                !.players[pi].handTiles = Append(@, state.wall[n + 1]),
                                !.phase = "postDraw"],
                  << "tileDrawn" >> \o RepeatPair("bonusTileDrawn", "tileDrawn", n)
                      \o << "turnChanged" >>)

drawTile(state) ==
    IF state.phase # "draw" THEN Throw(state)
    ELSE IF Len(state.wall) = 0
    THEN Ok([state EXCEPT !.phase = "roundOver", !.result = DrawResult], << "gameOver" >>)
    ELSE
      LET pi == state.currentPlayerIndex
          n == LeadingBonus(state.wall)
          len == Len(state.wall)
      IN  IF n = len
          THEN \* every remaining tile is a bonus tile: all set aside, wall exhausted
               Ok([state EXCEPT !.wall = << >>,
                                !.players[pi].bonusTiles = @ \o state.wall,
                                !.phase = "roundOver",
                                !.result = DrawResult],
                  << "tileDrawn" >> \o RepeatPair("bonusTileDrawn", "tileDrawn", n - 1)
                      \o << "bonusTileDrawn", "gameOver" >>)
          ELSE Ok([state EXCEPT !.wall = SubSeq(state.wall, n + 2, len),
                                !.players[pi].bonusTiles = @ \o SubSeq(state.wall, 1, n),
                                !.players[pi].handTiles = Append(@, state.wall[n + 1]),
                                !.phase = "postDraw"],
                  << "tileDrawn" >> \o RepeatPair("bonusTileDrawn", "tileDrawn", n)
                      \o << "turnChanged" >>)

\* discardTile putting the tile on the discard pile without taking it out of the hand
discardTileKeepingHand(state, tile) ==
    IF state.phase # "postDraw" /\ state.phase # "discard" THEN Throw(state)
    ELSE
      LET pi == state.currentPlayerIndex
          idx == FirstIndexOfId(state.players[pi].handTiles, tile)
      IN  IF idx = 0 THEN Throw(state)
          ELSE Ok([state EXCEPT !.players[pi].discards = Append(@, tile),
                                !.lastDiscard = tile,
                                !.lastDiscardPlayerIndex = pi,
                                !.phase = "claimWindow",
                                !.firstTurnComplete = TRUE],
                  << "tileDiscarded", "claimWindowOpen" >>)

\* discardTile leaving firstTurnComplete as it is
discardTileFirstTurnOpen(state, tile) ==
    IF state.phase # "postDraw" /\ state.phase # "discard" THEN Throw(state)
    ELSE
      LET pi == state.currentPlayerIndex
          idx == FirstIndexOfId(state.players[pi].handTiles, tile)
      IN  IF idx = 0 THEN Throw(state)
          ELSE Ok([state EXCEPT !.players[pi].handTiles = RemoveAt(@, idx),
                                !.players[pi].discards = Append(@, tile),
                                !.lastDiscard = tile,
                                !.lastDiscardPlayerIndex = pi,
                                !.phase = "claimWindow"],
                  << "tileDiscarded", "claimWindowOpen" >>)

discardTile(state, tile) ==
    IF state.phase # "postDraw" /\ state.phase # "discard" THEN Throw(state)
    ELSE
      LET pi == state.currentPlayerIndex
          idx == FirstIndexOfId(state.players[pi].handTiles, tile)
      IN  IF idx = 0 THEN Throw(state)
          ELSE Ok([state EXCEPT !.players[pi].handTiles = RemoveAt(@, idx),
                                !.players[pi].discards = Append(@, tile),
                                !.lastDiscard = tile,
                                !.lastDiscardPlayerIndex = pi,
                                !.phase = "claimWindow",
                                !.firstTurnComplete = TRUE],
                  << "tileDiscarded", "claimWindowOpen" >>)

\* discarder.discards.pop() left out
PopDiscardKept(state) == state

\* discarder.discards.pop()
PopDiscard(state) ==
    LET d == state.lastDiscardPlayerIndex
        pile == state.players[d].discards
    IN  [state EXCEPT !.players[d].discards = SubSeq(pile, 1, Len(pile) - 1)]

\* ------------------------------------------------------------------------
\* Claim actions (during claimWindow)
\* ------------------------------------------------------------------------

\* claimPong leaving the claimed tile on the discarder's pile
claimPongKeepingDiscard(state, claimingPlayerIndex) ==
    IF state.phase # "claimWindow" \/ state.lastDiscard = Null THEN Throw(state)
    ELSE IF claimingPlayerIndex = state.lastDiscardPlayerIndex THEN Throw(state)
    ELSE
      LET hand == state.players[claimingPlayerIndex].handTiles
          discardKey == tileKey(state.lastDiscard)
      IN  IF countInHand(hand, discardKey) < 2 THEN Throw(state)
          ELSE
            LET hand1 == removeOneTile(hand, discardKey)
                hand2 == removeOneTile(hand1, discardKey)
                meldTiles == << state.lastDiscard,
                                removedTile(hand, discardKey),
                                removedTile(hand1, discardKey) >>
            IN  Ok([state EXCEPT
                       !.players[claimingPlayerIndex].handTiles = hand2,
                       !.players[claimingPlayerIndex].openMelds =
                           Append(@, Meld("pung", meldTiles, FALSE)),
                       !.lastDiscard = Null,
                       !.lastDiscardPlayerIndex = Null,
                       !.currentPlayerIndex = claimingPlayerIndex,
                       !.phase = "discard"],
                   << "meldDeclared", "turnChanged" >>)

\* claimPong open to the seat that made the discard
claimPongOwnDiscard(state, claimingPlayerIndex) ==
    IF state.phase # "claimWindow" \/ state.lastDiscard = Null THEN Throw(state)
    ELSE
      LET hand == state.players[claimingPlayerIndex].handTiles
          discardKey == tileKey(state.lastDiscard)
      IN  IF countInHand(hand, discardKey) < 2 THEN Throw(state)
          ELSE
            LET hand1 == removeOneTile(hand, discardKey)
                hand2 == removeOneTile(hand1, discardKey)
                meldTiles == << state.lastDiscard,
                                removedTile(hand, discardKey),
                                removedTile(hand1, discardKey) >>
                s1 == [state EXCEPT
                          !.players[claimingPlayerIndex].handTiles = hand2,
                          !.players[claimingPlayerIndex].openMelds =
                              Append(@, Meld("pung", meldTiles, FALSE))]
            IN  Ok([PopDiscard(s1) EXCEPT !.lastDiscard = Null,
                                          !.lastDiscardPlayerIndex = Null,
                                          !.currentPlayerIndex = claimingPlayerIndex,
                                          !.phase = "discard"],
                   << "meldDeclared", "turnChanged" >>)

claimPong(state, claimingPlayerIndex) ==
    IF state.phase # "claimWindow" \/ state.lastDiscard = Null THEN Throw(state)
    ELSE IF claimingPlayerIndex = state.lastDiscardPlayerIndex THEN Throw(state)
    ELSE
      LET hand == state.players[claimingPlayerIndex].handTiles
          discardKey == tileKey(state.lastDiscard)
      IN  IF countInHand(hand, discardKey) < 2 THEN Throw(state)
          ELSE
            LET hand1 == removeOneTile(hand, discardKey)
                hand2 == removeOneTile(hand1, discardKey)
                meldTiles == << state.lastDiscard,
                                removedTile(hand, discardKey),
                                removedTile(hand1, discardKey) >>
                s1 == [state EXCEPT
                          !.players[claimingPlayerIndex].handTiles = hand2,
                          !.players[claimingPlayerIndex].openMelds =
                              Append(@, Meld("pung", meldTiles, FALSE))]
            IN  Ok([PopDiscard(s1) EXCEPT !.lastDiscard = Null,
                                          !.lastDiscardPlayerIndex = Null,
                                          !.currentPlayerIndex = claimingPlayerIndex,
                                          !.phase = "discard"],
                   << "meldDeclared", "turnChanged" >>)

\* the three tiles sorted by value (they are of one numbered suit when this is used)
SortByValue(three) ==
    LET lo(x, y) == IF valueOf(x) <= valueOf(y) THEN x ELSE y
        hi(x, y) == IF valueOf(x) <= valueOf(y) THEN y ELSE x
        a == lo(three[1], three[2])
        b == hi(three[1], three[2])
        c == three[3]
    IN  << lo(a, c), lo(b, hi(a, c)), hi(b, hi(a, c)) >>

\* claimChow open to every seat
claimChowAnySeat(state, claimingPlayerIndex, chowTiles) ==
    IF state.phase # "claimWindow" \/ state.lastDiscard = Null THEN Throw(state)
    ELSE
      LET hand == state.players[claimingPlayerIndex].handTiles
          three == << state.lastDiscard >> \o chowTiles
          suit == suitOf(three[1])
      IN  IF \E i \in 1..3 : suitOf(three[i]) \notin NumberedSuits THEN Throw(state)
          ELSE IF \E i \in 1..3 : suitOf(three[i]) # suit THEN Throw(state)
          ELSE
            LET allThree == SortByValue(three)
                idx1 == FirstIndexOfId(hand, chowTiles[1])
                hand1 == IF idx1 = 0 THEN hand ELSE RemoveAt(hand, idx1)
                idx2 == FirstIndexOfId(hand1, chowTiles[2])
            IN  IF \/ valueOf(allThree[2]) # valueOf(allThree[1]) + 1
                   \/ valueOf(allThree[3]) # valueOf(allThree[2]) + 1
                THEN Throw(state)
                ELSE IF idx1 = 0 \/ idx2 = 0 THEN Throw(state)
                ELSE
                  LET s1 == [state EXCEPT
                                !.players[claimingPlayerIndex].handTiles =
                                    RemoveAt(hand1, idx2),
                                !.players[claimingPlayerIndex].openMelds =
                                    Append(@, Meld("chow", allThree, FALSE))]
                  IN  Ok([PopDiscard(s1) EXCEPT !.lastDiscard = Null,
                                                !.lastDiscardPlayerIndex = Null,
                                                !.currentPlayerIndex = claimingPlayerIndex,
                                                !.phase = "discard"],
                         << "meldDeclared", "turnChanged" >>)

claimChow(state, claimingPlayerIndex, chowTiles) ==
    IF state.phase # "claimWindow" \/ state.lastDiscard = Null THEN Throw(state)
    ELSE IF ~isLeftOf(claimingPlayerIndex, state.lastDiscardPlayerIndex) THEN Throw(state)
    ELSE
      LET hand == state.players[claimingPlayerIndex].handTiles
          three == << state.lastDiscard >> \o chowTiles
          suit == suitOf(three[1])
      IN  IF \E i \in 1..3 : suitOf(three[i]) \notin NumberedSuits THEN Throw(state)
          ELSE IF \E i \in 1..3 : suitOf(three[i]) # suit THEN Throw(state)
          ELSE
            LET allThree == SortByValue(three)
                idx1 == FirstIndexOfId(hand, chowTiles[1])
                hand1 == IF idx1 = 0 THEN hand ELSE RemoveAt(hand, idx1)
                idx2 == FirstIndexOfId(hand1, chowTiles[2])
            IN  IF \/ valueOf(allThree[2]) # valueOf(allThree[1]) + 1
                   \/ valueOf(allThree[3]) # valueOf(allThree[2]) + 1
                THEN Throw(state)
                ELSE IF idx1 = 0 \/ idx2 = 0 THEN Throw(state)
                ELSE
                  LET s1 == [state EXCEPT
                                !.players[claimingPlayerIndex].handTiles =
                                    RemoveAt(hand1, idx2),
                                !.players[claimingPlayerIndex].openMelds =
                                    Append(@, Meld("chow", allThree, FALSE))]
                  IN  Ok([PopDiscard(s1) EXCEPT !.lastDiscard = Null,
                                                !.lastDiscardPlayerIndex = Null,
                                                !.currentPlayerIndex = claimingPlayerIndex,
                                                !.phase = "discard"],
                         << "meldDeclared", "turnChanged" >>)

claimKong(state, claimingPlayerIndex) ==
    IF state.phase # "claimWindow" \/ state.lastDiscard = Null THEN Throw(state)
    ELSE IF claimingPlayerIndex = state.lastDiscardPlayerIndex THEN Throw(state)
    ELSE
      LET p == claimingPlayerIndex
          hand == state.players[p].handTiles
          discardKey == tileKey(state.lastDiscard)
      IN  IF countInHand(hand, discardKey) < 3 THEN Throw(state)
          ELSE
            LET hand1 == removeOneTile(hand, discardKey)
                hand2 == removeOneTile(hand1, discardKey)
                hand3 == removeOneTile(hand2, discardKey)
                meldTiles == << state.lastDiscard,
                                removedTile(hand, discardKey),
                                removedTile(hand1, discardKey),
                                removedTile(hand2, discardKey) >>
                s1 == [state EXCEPT
                          !.players[p].handTiles = hand3,
                          !.players[p].openMelds = Append(@, Meld("kong", meldTiles, FALSE))]
                s2 == [PopDiscard(s1) EXCEPT !.lastDiscard = Null,
                                             !.lastDiscardPlayerIndex = Null,
                                             !.currentPlayerIndex = p]
                dw == s2.deadWall
                n == Len(dw)
            IN  IF n = 0
                THEN \* dead wall exhausted
                     Ok([s2 EXCEPT !.phase = "roundOver", !.result = DrawResult],
                        << "meldDeclared", "gameOver" >>)
                ELSE IF ~isBonus(dw[n])
                THEN Ok([s2 EXCEPT !.deadWall = SubSeq(dw, 1, n - 1),
                                   !.players[p].handTiles = Append(@, dw[n]),
                                   !.phase = "postDraw"],
                        << "meldDeclared", "kongReplacement" >>)
                ELSE IF n = 1
                THEN Ok([s2 EXCEPT !.deadWall = << >>,
                                   !.players[p].bonusTiles = Append(@, dw[n]),
                                   !.phase = "roundOver",
                                   !.result = DrawResult],
                        << "meldDeclared", "kongReplacement", "bonusTileDrawn", "gameOver" >>)
                ELSE IF ~isBonus(dw[n - 1])
                THEN Ok([s2 EXCEPT !.deadWall = SubSeq(dw, 1, n - 2),
                                   !.players[p].bonusTiles = Append(@, dw[n]),
                                   !.players[p].handTiles = Append(@, dw[n - 1]),
                                   !.phase = "postDraw"],
                        << "meldDeclared", "kongReplacement", "bonusTileDrawn" >>)
                ELSE \* second replacement is a bonus tile too: set aside, no further draw
                     Ok([s2 EXCEPT !.deadWall = SubSeq(dw, 1, n - 2),
                                   !.players[p].bonusTiles = @ \o << dw[n], dw[n - 1] >>,
                                   !.phase = "postDraw"],
                        << "meldDeclared", "kongReplacement", "bonusTileDrawn" >>)

WinResult(state, playerIndex, claimedTile, selfDrawn) ==
    [type |-> "win",
     winnerIndex |-> playerIndex,
     loserIndex |-> IF selfDrawn THEN Null ELSE state.lastDiscardPlayerIndex,
     handTiles |-> reconstructFullHand(state.players[playerIndex], claimedTile)]

\* claimWin without the validation of the hand
claimWinUnvalidated(state, claimingPlayerIndex) ==
    IF state.phase # "claimWindow" \/ state.lastDiscard = Null THEN Throw(state)
    ELSE Ok([PopDiscard(state) EXCEPT
                !.phase = "roundOver",
                !.result = WinResult(state, claimingPlayerIndex, state.lastDiscard, FALSE)],
            << "gameOver" >>)

\* claimWin without the phase check
claimWinAnyPhase(state, claimingPlayerIndex) ==
    IF state.lastDiscard = Null THEN Throw(state)
    ELSE
      LET fullHand == reconstructFullHand(state.players[claimingPlayerIndex],
                                          state.lastDiscard)
      IN  IF ~parseHand(fullHand).valid THEN Throw(state)
          ELSE Ok([PopDiscard(state) EXCEPT
                      !.phase = "roundOver",
                      !.result = WinResult(state, claimingPlayerIndex,
                                           state.lastDiscard, FALSE)],
                  << "gameOver" >>)

claimWin(state, claimingPlayerIndex) ==
    IF state.phase # "claimWindow" \/ state.lastDiscard = Null THEN Throw(state)
    ELSE
      LET fullHand == reconstructFullHand(state.players[claimingPlayerIndex],
                                          state.lastDiscard)
      IN  IF ~parseHand(fullHand).valid THEN Throw(state)
          ELSE Ok([PopDiscard(state) EXCEPT
                      !.phase = "roundOver",
                      !.result = WinResult(state, claimingPlayerIndex,
                                           state.lastDiscard, FALSE)],
                  << "gameOver" >>)

\* passClaim leaving the pending discard set
passClaimKeepingPending(state) ==
    IF state.phase # "claimWindow" THEN Throw(state)
    ELSE Ok([state EXCEPT !.currentPlayerIndex = nextPlayer(state.lastDiscardPlayerIndex),
                          !.phase = "draw",
                          !.turnNumber = @ + 1],
            << "turnChanged" >>)

\* passClaim taking the passed discard off the discarder's pile
passClaimTakingDiscard(state) ==
    IF state.phase # "claimWindow" THEN Throw(state)
    ELSE Ok([PopDiscard(state) EXCEPT
                          !.lastDiscard = Null,
                          !.lastDiscardPlayerIndex = Null,
                          !.currentPlayerIndex = nextPlayer(state.lastDiscardPlayerIndex),
                          !.phase = "draw",
                          !.turnNumber = @ + 1],
            << "turnChanged" >>)

passClaim(state) ==
    IF state.phase # "claimWindow" THEN Throw(state)
    ELSE Ok([state EXCEPT !.lastDiscard = Null,
                          !.lastDiscardPlayerIndex = Null,
                          !.currentPlayerIndex = nextPlayer(state.lastDiscardPlayerIndex),
                          !.phase = "draw",
                          !.turnNumber = @ + 1],
            << "turnChanged" >>)

\* ------------------------------------------------------------------------
\* Kong replacement
\* ------------------------------------------------------------------------

\* Draws from the back of the dead wall; every bonus tile drawn is set aside
\* and replaced again, until a non-bonus tile is drawn or the dead wall is empty.
drawKongReplacement(state, playerIndex, events) ==
    LET dw == state.deadWall
        len == Len(dw)
        n == TrailingBonus(dw)
        setAside == Reverse(SubSeq(dw, len - n + 1, len))
    IN  IF len = 0
        THEN Ok([state EXCEPT !.phase = "roundOver", !.result = DrawResult],
                Append(events, "gameOver"))
        ELSE IF n = len
        THEN Ok([state EXCEPT !.deadWall = << >>,
                              !.players[playerIndex].bonusTiles = @ \o setAside,
                              !.phase = "roundOver",
                              !.result = DrawResult],
                events \o << "kongReplacement" >>
                       \o RepeatPair("bonusTileDrawn", "kongReplacement", n - 1)
                       \o << "bonusTileDrawn", "gameOver" >>)
        ELSE Ok([state EXCEPT !.deadWall = SubSeq(dw, 1, len - n - 1),
                              !.players[playerIndex].bonusTiles = @ \o setAside,
                              !.players[playerIndex].handTiles = Append(@, dw[len - n]),
                              !.phase = "postDraw"],
                events \o << "kongReplacement" >>
                       \o RepeatPair("bonusTileDrawn", "kongReplacement", n)
                       \o << "turnChanged" >>)

\* ------------------------------------------------------------------------
\* Kong and self-win declarations (during postDraw)
\* ------------------------------------------------------------------------

\* the hand after removing the given tiles one by one by id; << Null >> when
\* one of them is not (or no longer) in the hand
RECURSIVE removeTilesById(_, _)
removeTilesById(hand, tiles) ==
    IF tiles = << >> THEN hand
    ELSE LET idx == FirstIndexOfId(hand, Head(tiles))
         IN  IF idx = 0 THEN << Null >>
             ELSE removeTilesById(RemoveAt(hand, idx), Tail(tiles))

\* declareKong taking whichever of the named tiles the hand holds
declareKongUnheld(state, kongTiles) ==
    IF state.phase # "postDraw" THEN Throw(state)
    ELSE IF Len(kongTiles) # 4 THEN Throw(state)
    ELSE IF \E i \in 1..4 : tileKey(kongTiles[i]) # tileKey(kongTiles[1]) THEN Throw(state)
    ELSE
      LET pi == state.currentPlayerIndex
          held(t) == t \notin Range(kongTiles)
      IN  drawKongReplacement(
              [state EXCEPT !.players[pi].handTiles = SelectSeq(@, held),
                            !.players[pi].openMelds =
                                Append(@, Meld("kong", kongTiles, TRUE))],
              pi, << "meldDeclared" >>)

declareKong(state, kongTiles) ==
    IF state.phase # "postDraw" THEN Throw(state)
    ELSE IF Len(kongTiles) # 4 THEN Throw(state)
    ELSE IF \E i \in 1..4 : tileKey(kongTiles[i]) # tileKey(kongTiles[1]) THEN Throw(state)
    ELSE
      LET pi == state.currentPlayerIndex
          rest == removeTilesById(state.players[pi].handTiles, kongTiles)
      IN  IF rest = << Null >> THEN Throw(state)
          ELSE drawKongReplacement(
                   [state EXCEPT !.players[pi].handTiles = rest,
                                 !.players[pi].openMelds =
                                     Append(@, Meld("kong", kongTiles, TRUE))],
                   pi, << "meldDeclared" >>)

\* index of the first exposed pung of the given kind, 0 when there is none
FirstPungIndex(melds, key) ==
    LET hit(i) == /\ melds[i].type = "pung"
                  /\ ~melds[i].concealed
                  /\ tileKey(melds[i].tiles[1]) = key
    IN  IF \E i \in 1..Len(melds) : hit(i)
        THEN CHOOSE i \in 1..Len(melds) : hit(i) /\ \A j \in 1..(i - 1) : ~hit(j)
        ELSE 0

\* promotePungToKong taking the pung out and adding the kong after the other melds
promotePungToKongAppended(state, tile) ==
    IF state.phase # "postDraw" THEN Throw(state)
    ELSE
      LET pi == state.currentPlayerIndex
          player == state.players[pi]
          pungIdx == FirstPungIndex(player.openMelds, tileKey(tile))
          handIdx == FirstIndexOfId(player.handTiles, tile)
      IN  IF pungIdx = 0 THEN Throw(state)
          ELSE IF handIdx = 0 THEN Throw(state)
          ELSE drawKongReplacement(
                   [state EXCEPT !.players[pi].handTiles = RemoveAt(@, handIdx),
                                 !.players[pi].openMelds =
                                     Append(RemoveAt(@, pungIdx),
                                            Meld("kong",
                                                 Append(player.openMelds[pungIdx].tiles, tile),
                                                 FALSE))],
                   pi, << "meldDeclared" >>)

promotePungToKong(state, tile) ==
    IF state.phase # "postDraw" THEN Throw(state)
    ELSE
      LET pi == state.currentPlayerIndex
          player == state.players[pi]
          pungIdx == FirstPungIndex(player.openMelds, tileKey(tile))
          handIdx == FirstIndexOfId(player.handTiles, tile)
      IN  IF pungIdx = 0 THEN Throw(state)
          ELSE IF handIdx = 0 THEN Throw(state)
          ELSE drawKongReplacement(
                   [state EXCEPT !.players[pi].handTiles = RemoveAt(@, handIdx),
                                 !.players[pi].openMelds[pungIdx] =
                                     [@ EXCEPT !.type = "kong",
                                               !.tiles = Append(@, tile)]],
                   pi, << "meldDeclared" >>)

\* declareSelfWin without the phase check
declareSelfWinAnyPhase(state) ==
    LET pi == state.currentPlayerIndex
        fullHand == reconstructFullHand(state.players[pi], Null)
    IN  IF ~parseHand(fullHand).valid THEN Throw(state)
        ELSE Ok([state EXCEPT !.phase = "roundOver",
                              !.result = WinResult(state, pi, Null, TRUE)],
                << "gameOver" >>)

declareSelfWin(state) ==
    IF state.phase # "postDraw" THEN Throw(state)
    ELSE
      LET pi == state.currentPlayerIndex
          fullHand == reconstructFullHand(state.players[pi], Null)
      IN  IF ~parseHand(fullHand).valid THEN Throw(state)
          ELSE Ok([state EXCEPT !.phase = "roundOver",
                                !.result = WinResult(state, pi, Null, TRUE)],
                  << "gameOver" >>)

\* ------------------------------------------------------------------------
\* Query helpers
\* ------------------------------------------------------------------------

canPlayerWin(state, playerIndex, extraTile) ==
    LET fullHand == reconstructFullHand(state.players[playerIndex], extraTile)
    IN  IF Len(fullHand) # 14 THEN FALSE ELSE parseHand(fullHand).valid

\* canPong satisfied by a single matching tile in the hand
canPongWithOne(state, playerIndex) ==
    IF state.lastDiscard = Null \/ playerIndex = state.lastDiscardPlayerIndex THEN FALSE
    ELSE countInHand(state.players[playerIndex].handTiles, tileKey(state.lastDiscard)) >= 1

canPong(state, playerIndex) ==
    IF state.lastDiscard = Null \/ playerIndex = state.lastDiscardPlayerIndex THEN FALSE
    ELSE countInHand(state.players[playerIndex].handTiles, tileKey(state.lastDiscard)) >= 2

\* first tile of the hand of the given kind (Array.prototype.find), Null if none
FindByKey(hand, key) == removedTile(hand, key)

\* the chow options, as a sequence of pairs of hand tiles (empty: canChow is false)
canChow(state, playerIndex) ==
    IF state.lastDiscard = Null \/ ~isLeftOf(playerIndex, state.lastDiscardPlayerIndex)
    THEN << >>
    ELSE IF suitOf(state.lastDiscard) \notin NumberedSuits THEN << >>
    ELSE
      LET hand == state.players[playerIndex].handTiles
          key == tileKey(state.lastDiscard)
          val == valueOf(state.lastDiscard)
          option(ok, k1, k2) ==
              IF ok /\ FindByKey(hand, k1) # Null /\ FindByKey(hand, k2) # Null
              THEN << << FindByKey(hand, k1), FindByKey(hand, k2) >> >>
              ELSE << >>
      IN  option(val >= 3, key - 2, key - 1)
            \o option(val >= 2 /\ val <= 8, key - 1, key + 1)
            \o option(val <= 7, key + 1, key + 2)

canKongFromDiscard(state, playerIndex) ==
    IF state.lastDiscard = Null \/ playerIndex = state.lastDiscardPlayerIndex THEN FALSE
    ELSE countInHand(state.players[playerIndex].handTiles, tileKey(state.lastDiscard)) >= 3

\* the kinds of a tile list in order of first occurrence (Map insertion order)
RECURSIVE KeysInOrder(_)
KeysInOrder(tiles) ==
    IF tiles = << >> THEN << >>
    ELSE LET init == KeysInOrder(SubSeq(tiles, 1, Len(tiles) - 1))
             k == tileKey(tiles[Len(tiles)])
         IN  IF k \in Range(init) THEN init ELSE Append(init, k)

\* kinds of which the current player holds exactly four (empty: false)
canDeclareConcealedKong(state) ==
    LET hand == state.players[state.currentPlayerIndex].handTiles
        four(k) == countInHand(hand, k) = 4
    IN  SelectSeq(KeysInOrder(hand), four)

\* kinds of the current player's exposed pungs whose fourth tile is in hand
canPromotePung(state) ==
    LET player == state.players[state.currentPlayerIndex]
        promotable(m) == /\ m.type = "pung"
                         /\ ~m.concealed
                         /\ countInHand(player.handTiles, tileKey(m.tiles[1])) > 0
        pungs == SelectSeq(player.openMelds, promotable)
    IN  [i \in 1..Len(pungs) |-> tileKey(pungs[i].tiles[1])]

Action(type, tiles) == [type |-> type, tiles |-> tiles]

getValidActions(state, playerIndex) ==
    LET player == state.players[playerIndex]
        hand == player.handTiles
        discards == [i \in 1..Len(hand) |-> Action("discard", << hand[i] >>)]
        ofKey(k) == LET same(t) == tileKey(t) = k IN SelectSeq(hand, same)
        kongKeys == canDeclareConcealedKong(state)
        pungKeys == canPromotePung(state)
        chows == canChow(state, playerIndex)
        postDraw ==
            IF state.phase = "postDraw" /\ playerIndex = state.currentPlayerIndex
            THEN discards
                 \o (IF canPlayerWin(state, playerIndex, Null)
                     THEN << Action("declareSelfWin", << >>) >> ELSE << >>)
                 \o [i \in 1..Len(kongKeys) |-> Action("declareKong", ofKey(kongKeys[i]))]
                 \o [i \in 1..Len(pungKeys) |->
                        Action("promotePungToKong", << FindByKey(hand, pungKeys[i]) >>)]
            ELSE << >>
        discard ==
            IF state.phase = "discard" /\ playerIndex = state.currentPlayerIndex
            THEN discards ELSE << >>
        claimWindow ==
            IF state.phase = "claimWindow" /\ playerIndex # state.lastDiscardPlayerIndex
            THEN (IF canPlayerWin(state, playerIndex, state.lastDiscard)
                  THEN << Action("claimWin", << >>) >> ELSE << >>)
                 \o (IF canPong(state, playerIndex)
                     THEN << Action("claimPong", << >>) >> ELSE << >>)
                 \o (IF canKongFromDiscard(state, playerIndex)
                     THEN << Action("claimKong", << >>) >> ELSE << >>)
                 \o [i \in 1..Len(chows) |-> Action("claimChow", chows[i])]
                 \o << Action("pass", << >>) >>
            ELSE << >>
    IN  postDraw \o discard \o claimWindow

\* GameController.getValidActions with the state altered by the call: the
\* hand of the seat asked about is left in reverse order
queryValidActionsReordering(state, playerIndex) ==
    [state |-> [state EXCEPT !.players[playerIndex].handTiles = Reverse(@)],
     actions |-> getValidActions(state, playerIndex)]

\* GameController.getValidActions: the list of actions for the seat; neither it
\* nor the queries it calls assign to the state or to one of its arrays
queryValidActions(state, playerIndex) ==
    [state |-> state, actions |-> getValidActions(state, playerIndex)]

\* ------------------------------------------------------------------------
\* Decision source (AI module)
\* ------------------------------------------------------------------------

allSeats == << "east", "south", "west", "north" >>

\* the seat wind dealGame gives a player
seatOf(state, playerIndex) == allSeats[((playerIndex - state.dealerIndex + 4) % 4) + 1]

\* the value of a wind tile
windOf(tile) == << "east", "north", "south", "west" >>[valueOf(tile)]

isHonor(tile) == suitOf(tile) \in {4, 5}

isTerminal(tile) == suitOf(tile) \in NumberedSuits /\ valueOf(tile) \in {1, 9}

AIDecision(action, reasoning) == [ok |-> TRUE, action |-> action, reasoning |-> reasoning]

\* position of the first action of one of the types, 0 when there is none
FindAction(validActions, types) ==
    LET found == {i \in 1..Len(validActions) : validActions[i].type \in types}
    IN  IF found = {} THEN 0 ELSE CHOOSE i \in found : \A j \in found : i <= j

isScoringTile(state, playerIndex, tile) ==
    \/ suitOf(tile) = 4
    \/ /\ suitOf(tile) = 5
       /\ \/ windOf(tile) = seatOf(state, playerIndex)
          \/ windOf(tile) = state.prevailingWind

\* the score pickBestDiscard gives a tile of the hand (lower is discarded first)
discardScore(state, playerIndex, tile) ==
    LET hand == state.players[playerIndex].handTiles
        key == tileKey(tile)
        count == countInHand(hand, key)
        allDiscards == UNION {{tileKey(t) : t \in Range(state.players[i].discards)} : i \in Seats}
        neighbours ==
            IF suitOf(tile) \in NumberedSuits
            THEN Cardinality({o \in {-2, -1, 1, 2} :
                     /\ valueOf(tile) + o \in 1..9
                     /\ countInHand(hand, key + o) > 0})
            ELSE 0
    IN  (IF count >= 2 THEN 20 ELSE 0)
        + (IF count >= 3 THEN 40 ELSE 0)
        + (IF suitOf(tile) = 4 THEN 15 ELSE 0)
        + (IF suitOf(tile) = 5 /\ windOf(tile) = seatOf(state, playerIndex) THEN 15 ELSE 0)
        + (IF suitOf(tile) = 5 /\ windOf(tile) = state.prevailingWind THEN 15 ELSE 0)
        + 5 * neighbours
        - (IF key \in allDiscards THEN 3 ELSE 0)
        - (IF isHonor(tile) /\ count = 1 THEN 5 ELSE 0)
        - (IF isTerminal(tile) THEN 2 ELSE 0)

\* the first of the discards with the lowest score (the sort is stable)
pickBestDiscard(state, playerIndex, discardActions) ==
    LET score == [i \in 1..Len(discardActions) |->
                     discardScore(state, playerIndex, discardActions[i].tiles[1])]
        best == CHOOSE i \in 1..Len(discardActions) :
                    /\ \A j \in 1..Len(discardActions) : score[i] <= score[j]
                    /\ \A j \in 1..(i - 1) : score[j] > score[i]
    IN  AIDecision(discardActions[best], "Discard")

fallbackDecision(state, playerIndex, validActions) ==
    LET win == FindAction(validActions, {"claimWin", "declareSelfWin"})
        kong == FindAction(validActions, {"declareKong", "promotePungToKong"})
        pong == FindAction(validActions, {"claimPong"})
        claimedKong == FindAction(validActions, {"claimKong"})
        scoring == /\ state.lastDiscard # Null
                   /\ isScoringTile(state, playerIndex, state.lastDiscard)
        isDiscard(a) == a.type = "discard"
        discardActions == SelectSeq(validActions, isDiscard)
        pass == FindAction(validActions, {"pass"})
    IN  IF win # 0 THEN AIDecision(validActions[win], "Win available")
        ELSE IF kong # 0 THEN AIDecision(validActions[kong], "Kong available")
        ELSE IF pong # 0 /\ scoring THEN AIDecision(validActions[pong], "Pong scoring tile")
        ELSE IF claimedKong # 0 /\ scoring
        THEN AIDecision(validActions[claimedKong], "Kong scoring tile")
        ELSE IF Len(discardActions) > 0
        THEN pickBestDiscard(state, playerIndex, discardActions)
        ELSE IF pass # 0 THEN AIDecision(validActions[pass], "No advantageous claim")
        ELSE AIDecision(validActions[1], "Default action")

\* the value of the answer's "action" field as parseInt reads it: an optional
\* minus sign and the digits the text starts with
ActionField(negative, digits) == [negative |-> negative, digits |-> digits]

NaN == [nan |-> TRUE, n |-> 0]

RECURSIVE DigitsValue(_)
DigitsValue(digits) ==
    IF digits = << >> THEN 0
    ELSE 10 * DigitsValue(SubSeq(digits, 1, Len(digits) - 1)) + digits[Len(digits)]

parseInt(field) ==
    IF field.digits = << >> THEN NaN
    ELSE [nan |-> FALSE,
          n |-> IF field.negative THEN 0 - DigitsValue(field.digits)
                ELSE DigitsValue(field.digits)]

NoDecision == [ok |-> FALSE, action |-> [type |-> "none", tiles |-> << >>], reasoning |-> "null"]

\* parseAPIResponse not comparing the index with the length of the list
parseAPIResponseUnchecked(content, validActions) ==
    IF content.kind # "json" THEN NoDecision
    ELSE LET actionIndex == parseInt(content.action)
         IN  IF actionIndex.nan THEN NoDecision
             ELSE AIDecision(IF actionIndex.n \in 0..(Len(validActions) - 1)
                             THEN validActions[actionIndex.n + 1]
                             ELSE [type |-> "undefined", tiles |-> << >>],
                             "MiniMax API decision")

\* content: what the answer's text holds ("noJson": no braces, "badJson":
\* braces that do not parse, "json": an object with the given action field)
parseAPIResponse(content, validActions) ==
    IF content.kind # "json" THEN NoDecision
    ELSE LET actionIndex == parseInt(content.action)
         IN  IF actionIndex.nan \/ actionIndex.n < 0 \/ actionIndex.n >= Len(validActions)
             THEN NoDecision
             ELSE AIDecision(validActions[actionIndex.n + 1], "MiniMax API decision")

\* callMiniMaxAPI: [thrown, result]; fetch rejecting (network error, abort
\* after the timeout) is a throw, a status that is not ok or an answer with
\* no content is null
callMiniMaxAPI(validActions, remote) ==
    IF remote.fetch \in {"exception", "timeout"} THEN [thrown |-> TRUE, result |-> NoDecision]
    ELSE IF remote.fetch = "httpError" THEN [thrown |-> FALSE, result |-> NoDecision]
    ELSE IF remote.content.kind = "none" THEN [thrown |-> FALSE, result |-> NoDecision]
    ELSE [thrown |-> FALSE, result |-> parseAPIResponse(remote.content, validActions)]

\* getAIDecision; an empty list makes it throw (ok FALSE). remote is what
\* the environment does: whether MINIMAX_API_KEY is set, how fetch ends and
\* what the answer holds
getAIDecision(state, playerIndex, validActions, remote) ==
    IF Len(validActions) = 0 THEN NoDecision
    ELSE IF Len(validActions) = 1 THEN AIDecision(validActions[1], "Only one option")
    ELSE LET call == callMiniMaxAPI(validActions, remote)
         IN  IF remote.apiKey /\ ~call.thrown /\ call.result.ok THEN call.result
             ELSE fallbackDecision(state, playerIndex, validActions)

\* ------------------------------------------------------------------------
\* Automated game loop
\* ------------------------------------------------------------------------

\* what getAIDecision may answer: any element of the legal actions it is given
Decisions(validActions) == Range(validActions)

\* class values that rank a win claim with a pong claim
claimBaseWinAsPong(type) ==
    CASE type = "claimWin" -> 50
      [] type = "claimPong" -> 50
      [] type = "claimKong" -> 50
      [] type = "claimChow" -> 10
      [] OTHER -> 0

claimBase(type) ==
    CASE type = "claimWin" -> 100
      [] type = "claimPong" -> 50
      [] type = "claimKong" -> 50
      [] type = "claimChow" -> 10
      [] OTHER -> 0

\* a tiebreaker favouring the seat farthest from the discarder
claimPriorityFarthest(type, i, discarderIdx) ==
    claimBase(type) + ((i - discarderIdx + 4) % 4)

\* priority of a claim of the given type by seat i: class value plus tiebreaker
claimPriority(type, i, discarderIdx) ==
    claimBase(type) + (4 - ((i - discarderIdx + 4) % 4))

\* resolveClaimWindow asks seat i for a decision: an AI seat other than the
\* discarder with something else than pass to choose from
Asked(state, i) ==
    /\ i # state.lastDiscardPlayerIndex
    /\ state.players[i].type = "ai"
    /\ LET va == getValidActions(state, i)
       IN  Len(va) # 0 /\ ~(Len(va) = 1 /\ va[1].type = "pass")

AskedSeats(state) == {i \in Seats : Asked(state, i)}

\* what seat i contributes to the resolution: one of its legal actions when it
\* is asked, no claim otherwise
Responses(state, i) ==
    IF Asked(state, i) THEN Decisions(getValidActions(state, i))
    ELSE {Action("pass", << >>)}

Claim(i, action, discarderIdx) ==
    [playerIndex |-> i, action |-> action,
     priority |-> claimPriority(action.type, i, discarderIdx)]

\* the claims collected for the given decisions (one per asked seat)
\* (decision[i + 1] is the action of seat i)
CollectClaims(state, decision) ==
    {Claim(i, decision[i + 1], state.lastDiscardPlayerIndex) :
        i \in {j \in Seats : decision[j + 1].type # "pass"}}

\* claims.sort((a, b) => b.priority - a.priority)[0]
BestClaim(claims) == CHOOSE c \in claims : \A d \in claims : c.priority >= d.priority

ApplyClaim(state, best) ==
    CASE best.action.type = "claimWin" -> claimWin(state, best.playerIndex)
      [] best.action.type = "claimPong" -> claimPong(state, best.playerIndex)
      [] best.action.type = "claimKong" -> claimKong(state, best.playerIndex)
      [] best.action.type = "claimChow" ->
             claimChow(state, best.playerIndex, best.action.tiles)
      [] OTHER -> passClaim(state)

resolveClaimWindow(state, decision) ==
    IF state.phase # "claimWindow" THEN Throw(state)
    ELSE LET claims == CollectClaims(state, decision)
         IN  IF claims = {} THEN passClaim(state)
             ELSE ApplyClaim(state, BestClaim(claims))

\* some human seat other than the discarder has a legal action besides pass
humanCanAct(state) ==
    \E i \in Seats :
        /\ i # state.lastDiscardPlayerIndex
        /\ state.players[i].type = "human"
        /\ LET va == getValidActions(state, i)
           IN  \E k \in 1..Len(va) : va[k].type # "pass"

\* the loop pauses: round over, or a human seat has to act
stepPauses(state) ==
    \/ state.phase = "roundOver"
    \/ /\ state.players[state.currentPlayerIndex].type = "human"
       /\ state.phase # "claimWindow"
    \/ state.phase = "claimWindow" /\ humanCanAct(state)

ApplyTurnAction(state, action) ==
    CASE action.type = "discard" -> discardTile(state, action.tiles[1])
      [] action.type = "declareSelfWin" -> declareSelfWin(state)
      [] action.type = "declareKong" -> declareKong(state, action.tiles)
      [] action.type = "promotePungToKong" -> promotePungToKong(state, action.tiles[1])
      [] OTHER -> discardTile(state, state.players[state.currentPlayerIndex].handTiles[1])

\* the engine operation an action type is carried out by
OpOf(type) ==
    CASE type = "discard" -> "discardTile"
      [] type = "pass" -> "passClaim"
      [] OTHER -> type

\* ------------------------------------------------------------------------
\* Positions the round is started from
\* ------------------------------------------------------------------------

\* bounds on the number of tiles left in the live wall and in the dead wall
MaxWall == 2

MaxDeadWall == 3

\* a round started from the deal is followed for its first MaxDiscards discards
MaxDiscards == 1

\* the four tiles of a kind, and the three tiles of a run starting at a kind
Four(k) == << k * 10 + 1, k * 10 + 2, k * 10 + 3, k * 10 + 4 >>

Three(k) == << k * 10 + 1, k * 10 + 2, k * 10 + 3 >>

Run(k, c) == << k * 10 + c, (k + 1) * 10 + c, (k + 2) * 10 + c >>

\* Declared melds of the four seats: a late-round position in which every seat
\* has declared three melds (one of them a kong) and holds four tiles, the
\* seat to act (which has drawn) five.
MeldsA ==
    [i \in Seats |->
        CASE i = 0 -> << Meld("kong", Four(51), TRUE), Meld("pung", Three(42), FALSE),
                         Meld("chow", Run(21, 1), FALSE) >>
          [] i = 1 -> << Meld("kong", Four(52), FALSE), Meld("pung", Three(43), FALSE),
                         Meld("chow", Run(24, 1), FALSE) >>
          [] i = 2 -> << Meld("kong", Four(53), FALSE), Meld("pung", Three(27), FALSE),
                         Meld("chow", Run(21, 2), FALSE) >>
          [] OTHER -> << Meld("kong", Four(54), FALSE), Meld("pung", Three(28), FALSE),
                         Meld("chow", Run(24, 2), FALSE) >>]

\* as MeldsA, seat 0 holding an exposed pung of green dragons
MeldsB == [MeldsA EXCEPT ![0] = << Meld("pung", Three(41), FALSE),
                                    Meld("kong", Four(51), TRUE),
                                    Meld("chow", Run(21, 1), FALSE) >>]

\* Seat 0 holds a complete hand; bamboo 3 completes the hands of seats 1, 2, 3,
\* seat 1 can also chow it and seat 2 pong it; seat 1 can pong dots 1.
HandsA ==
    [i \in Seats |->
        CASE i = 0 -> << 131, 141, 151, 311, 312 >>
          [] i = 1 -> << 111, 121, 313, 314 >>
          [] i = 2 -> << 132, 133, 351, 352 >>
          [] OTHER -> << 134, 371, 381, 391 >>]

\* Seat 0 holds four dots 3 and a bamboo 6, which seat 1 can chow or win on and
\* seat 2 can pong or kong; seat 3 waits on dots 6 / dots 9.
HandsB ==
    [i \in Seats |->
        CASE i = 0 -> << 331, 332, 333, 334, 161 >>
          [] i = 1 -> << 171, 181, 321, 322 >>
          [] i = 2 -> << 162, 163, 164, 341 >>
          [] OTHER -> << 371, 381, 392, 393 >>]

\* Seat 3 is to act.  Its dots 6 completes the hand of seat 0, which can also
\* chow it; seat 1 can pong it.
HandsC ==
    [i \in Seats |->
        CASE i = 0 -> << 341, 351, 293, 294 >>
          [] i = 1 -> << 362, 363, 123, 143 >>
          [] i = 2 -> << 113, 114, 153, 173 >>
          [] OTHER -> << 361, 411, 412, 152, 154 >>]

\* what is left of the live wall (front first) and of the dead wall (back last)
WallPools == { << 191, 631, 291 >>, << 192, 721 >> }

DeadWallPools == { << 193, 414, 611, 621 >>, << 194, 414, 711 >> }

\* seat 0 is played by a human in the third position, all seats by the AI in the
\* other two; the dead wall is varied where a kong can be formed
AllAI == [i \in Seats |-> "ai"]

HumanAtSeat0 == [i \in Seats |-> IF i = 0 THEN "human" ELSE "ai"]

Layouts ==
    { [hands |-> HandsA, melds |-> MeldsA, current |-> 0, types |-> AllAI,
       deadWalls |-> { << >> }],
      [hands |-> HandsB, melds |-> MeldsB, current |-> 0, types |-> AllAI,
       deadWalls |-> DeadWallPools],
      [hands |-> HandsC, melds |-> MeldsA, current |-> 3, types |-> HumanAtSeat0,
       deadWalls |-> { << >> }] }

Min(a, b) == IF a <= b THEN a ELSE b

Suffixes(pools, max) ==
    UNION {{SubSeq(q, Len(q) - n + 1, Len(q)) : n \in 0..Min(max, Len(q))} : q \in pools}

RECURSIVE SortedSeq(_)
SortedSeq(set) ==
    IF set = {} THEN << >>
    ELSE LET m == CHOOSE x \in set : \A y \in set : x <= y
         IN  << m >> \o SortedSeq(set \ {m})

\* every i-th element of a sequence, for the four seats in turn
Share(seq, i) ==
    LET n == (Len(seq) + 3 - i) \div 4
    IN  [j \in 1..n |-> seq[4 * (j - 1) + i + 1]]

RECURSIVE MeldTiles(_)
MeldTiles(melds) ==
    IF melds = << >> THEN {} ELSE Range(Head(melds).tiles) \cup MeldTiles(Tail(melds))

\* A position: the given hands, melds and walls; all other bonus tiles have been
\* set aside and all other tiles discarded, shared out among the four seats.
Position(layout, types, wall, deadWall) ==
    LET used == UNION {Range(layout.hands[i]) \cup MeldTiles(layout.melds[i]) : i \in Seats}
                    \cup Range(wall) \cup Range(deadWall)
        rest == AllTiles \ used
        setAside == SortedSeq({t \in rest : isBonus(t)})
        discarded == SortedSeq({t \in rest : ~isBonus(t)})
    IN  [players |-> [i \in Seats |->
                         [type |-> types[i],
                          handTiles |-> layout.hands[i],
                          openMelds |-> layout.melds[i],
                          bonusTiles |-> Share(setAside, i),
                          discards |-> Share(discarded, i)]],
         wall |-> wall,
         deadWall |-> deadWall,
         currentPlayerIndex |-> layout.current,
         phase |-> "postDraw",
         turnNumber |-> Len(discarded),
         firstTurnComplete |-> TRUE,
         dealerIndex |-> 0,
         lastDiscard |-> Null,
         lastDiscardPlayerIndex |-> Null,
         result |-> NoResult]

\* ------------------------------------------------------------------------
\* State machine
\* ------------------------------------------------------------------------

VARIABLES
    state,   \* the GameState held by the GameController
    last     \* the last operation invoked on it and how it ended

vars == << state, last >>

\* op: the engine operation; player: the seat it was invoked for (Null if it
\* takes none); ok: it returned; via: "api" for a call of a
\* GameController method, "step" for a step of the game loop; claims, polled:
\* the claims collected and the seats asked by resolveClaimWindow
Call(op, player, ok, via, claims, polled) ==
    [op |-> op, player |-> player, ok |-> ok, via |-> via,
     claims |-> claims, polled |-> polled]

Api(op, player) == Call(op, player, TRUE, "api", {}, {})

\* The deal: the dealer (seat 0) holds 14 tiles, four east winds among them, the
\* other seats 13; seat 2 waits on bamboo 1 or north wind, seat 3 on south wind;
\* seat 1 had a flower replaced at the deal.
DealtHands ==
    [i \in Seats |->
        CASE i = 0 -> << 511, 512, 513, 514, 111, 121, 131, 211, 212, 311, 321, 161,
                         411, 421 >>
          [] i = 1 -> << 141, 151, 162, 163, 221, 231, 241, 331, 341, 351, 431, 432,
                         391 >>
          [] i = 2 -> << 112, 113, 171, 181, 191, 251, 261, 271, 361, 371, 381, 521,
                         522 >>
          [] OTHER -> << 122, 123, 124, 132, 133, 134, 281, 282, 283, 291, 292, 293,
                         531 >>]

DealtBonus == [i \in Seats |-> IF i = 1 THEN << 611 >> ELSE << >>]

\* the 14 tiles reserved as dead wall (back last)
DealtDeadWall == << 114, 142, 152, 172, 182, 192, 213, 222, 232, 242, 252, 621, 312, 711 >>

\* createGame: the state after the deal
DealtPosition ==
    LET used == UNION {Range(DealtHands[i]) \cup Range(DealtBonus[i]) : i \in Seats}
                    \cup Range(DealtDeadWall)
    IN  [players |-> [i \in Seats |->
                         [type |-> "ai",
                          handTiles |-> DealtHands[i],
                          openMelds |-> << >>,
                          bonusTiles |-> DealtBonus[i],
                          discards |-> << >>]],
         wall |-> SortedSeq(AllTiles \ used),
         deadWall |-> DealtDeadWall,
         currentPlayerIndex |-> 0,
         phase |-> "postDraw",
         turnNumber |-> 0,
         firstTurnComplete |-> FALSE,
         dealerIndex |-> 0,
         lastDiscard |-> Null,
         lastDiscardPlayerIndex |-> Null,
         result |-> NoResult]

Init ==
    /\ \/ \E layout \in Layouts, wall \in Suffixes(WallPools, MaxWall) :
             \E deadWall \in Suffixes(layout.deadWalls, MaxDeadWall) :
                 state = Position(layout, layout.types, wall, deadWall)
       \/ state = DealtPosition
    /\ last = Api("createGame", Null)

\* the discards made so far: those on the piles and those claimed for a meld
DiscardsMade(s) ==
    LET made(i) == Len(s.players[i].discards)
                       + Cardinality({k \in 1..Len(s.players[i].openMelds) :
                                         ~s.players[i].openMelds[k].concealed})
    IN  made(0) + made(1) + made(2) + made(3)

\* a discard is followed: the wall is short, or the round is at its first discards
DiscardFollowed == Len(state.wall) <= MaxWall \/ DiscardsMade(state) < MaxDiscards

HandTilesOf(i) == Range(state.players[i].handTiles)

AnyHandTile == UNION {HandTilesOf(i) : i \in Seats}

\* pairs of tiles a chow claim may name: two of the seat's own tiles, or one of
\* its own and one held by the next seat
ChowInputs(p) ==
    {<< a, b >> : a \in HandTilesOf(p), b \in HandTilesOf(p) \cup HandTilesOf(nextPlayer(p))}

\* the four tiles of a kind held by some seat, or the first three tiles of a hand
KongInputs ==
    {Four(tileKey(t)) : t \in {x \in AnyHandTile : ~isBonus(x)}}
        \cup {SubSeq(state.players[i].handTiles, 1, 3) :
                  i \in {j \in Seats : Len(state.players[j].handTiles) >= 3}}

\* A call of a GameController method: the controller takes the returned state;
\* when the operation throws, the controller's state stays as it was.
DrawTile ==
    LET r == drawTile(state)
    IN  r.ok /\ state' = r.state /\ last' = Api("drawTile", Null)

DiscardTile ==
    /\ DiscardFollowed
    /\ \E tile \in AnyHandTile :
          LET r == discardTile(state, tile)
          IN  /\ r.ok
              /\ state' = r.state
              /\ last' = Api("discardTile", state.currentPlayerIndex)

ClaimPong ==
    \E p \in Seats :
        LET r == claimPong(state, p)
        IN  r.ok /\ state' = r.state /\ last' = Api("claimPong", p)

ClaimChow ==
    \E p \in Seats : \E chowTiles \in ChowInputs(p) :
        LET r == claimChow(state, p, chowTiles)
        IN  r.ok /\ state' = r.state /\ last' = Api("claimChow", p)

ClaimKong ==
    \E p \in Seats :
        LET r == claimKong(state, p)
        IN  r.ok /\ state' = r.state /\ last' = Api("claimKong", p)

ClaimWin ==
    \E p \in Seats :
        LET r == claimWin(state, p)
        IN  r.ok /\ state' = r.state /\ last' = Api("claimWin", p)

PassClaim ==
    LET r == passClaim(state)
    IN  r.ok /\ state' = r.state /\ last' = Api("passClaim", Null)

DeclareKong ==
    \E kongTiles \in KongInputs :
        LET r == declareKong(state, kongTiles)
        IN  r.ok /\ state' = r.state /\ last' = Api("declareKong", state.currentPlayerIndex)

PromotePungToKong ==
    \E tile \in AnyHandTile :
        LET r == promotePungToKong(state, tile)
        IN  /\ r.ok
            /\ state' = r.state
            /\ last' = Api("promotePungToKong", state.currentPlayerIndex)

DeclareSelfWin ==
    LET r == declareSelfWin(state)
    IN  r.ok /\ state' = r.state /\ last' = Api("declareSelfWin", state.currentPlayerIndex)

ClaimLog(claims) ==
    {[playerIndex |-> c.playerIndex, type |-> c.action.type, priority |-> c.priority] :
        c \in claims}

\* the record of a call of getValidActions, with the list it returned
Query(player, actions) ==
    [op |-> "getValidActions", player |-> player, ok |-> TRUE, via |-> "api",
     claims |-> {}, polled |-> {}, actions |-> actions]

\* The interface asks the controller for the actions of the human seat each time
\* it draws the table.
GetValidActions ==
    \E seat \in Seats :
        LET r == queryValidActions(state, seat)
        IN  /\ state.players[seat].type = "human"
            /\ state' = r.state
            /\ last' = Query(seat, r.actions)

\* stepGame in the claim window: resolveClaimWindow with the seats' decisions
StepClaimWindow ==
    /\ ~stepPauses(state)
    /\ state.phase = "claimWindow"
    /\ \E d0 \in Responses(state, 0), d1 \in Responses(state, 1),
          d2 \in Responses(state, 2), d3 \in Responses(state, 3) :
          LET decision == << d0, d1, d2, d3 >>
              claims == CollectClaims(state, decision)
              best == IF claims = {} THEN Claim(Null, Action("pass", << >>), Null)
                      ELSE BestClaim(claims)
              r == resolveClaimWindow(state, decision)
          IN  /\ r.ok
              /\ state' = r.state
              /\ last' = Call(OpOf(best.action.type), best.playerIndex, TRUE, "step",
                              ClaimLog(claims), AskedSeats(state))

\* stepGame in the draw phase of an AI seat
StepDraw ==
    /\ ~stepPauses(state)
    /\ state.phase = "draw"
    /\ LET r == drawTile(state)
       IN  r.ok /\ state' = r.state /\ last' = Call("drawTile", Null, TRUE, "step", {}, {})

\* stepGame in the postDraw or discard phase of an AI seat
StepTurn ==
    /\ ~stepPauses(state)
    /\ state.phase \in {"postDraw", "discard"}
    /\ \E action \in Decisions(getValidActions(state, state.currentPlayerIndex)) :
          LET r == ApplyTurnAction(state, action)
          IN  /\ action.type = "discard" => DiscardFollowed
              /\ r.ok
              /\ state' = r.state
              /\ last' = Call(OpOf(action.type), state.currentPlayerIndex, TRUE, "step",
                              {}, {state.currentPlayerIndex})

Next ==
    \/ DrawTile
    \/ DiscardTile
    \/ ClaimPong
    \/ ClaimChow
    \/ ClaimKong
    \/ ClaimWin
    \/ PassClaim
    \/ DeclareKong
    \/ PromotePungToKong
    \/ DeclareSelfWin
    \/ GetValidActions
    \/ StepClaimWindow
    \/ StepDraw
    \/ StepTurn

Spec == Init /\ [][Next]_vars

\* ------------------------------------------------------------------------
\* Properties
\* ------------------------------------------------------------------------

RECURSIVE MeldTileCount(_)
MeldTileCount(melds) ==
    IF melds = << >> THEN 0 ELSE Len(Head(melds).tiles) + MeldTileCount(Tail(melds))

RECURSIVE SumSeats(_, _)
SumSeats(f, seats) ==
    IF seats = {} THEN 0
    ELSE LET i == CHOOSE x \in seats : TRUE
         IN  f[i] + SumSeats(f, seats \ {i})

\* tiles in the hands, melds, bonus piles, live wall and dead wall
ZoneTotal(s) ==
    SumSeats([i \in Seats |-> Len(s.players[i].handTiles)
                              + MeldTileCount(s.players[i].openMelds)
                              + Len(s.players[i].bonusTiles)], Seats)
        + Len(s.wall) + Len(s.deadWall)

DiscardTotal(s) == SumSeats([i \in Seats |-> Len(s.players[i].discards)], Seats)

\* the claimed tile of a discard win: taken off the discarder's pile, it is
\* held by the result's winning hand only
ClaimedWinningTile(s) ==
    IF s.result.type = "win" /\ s.result.loserIndex # Null THEN 1 ELSE 0

KongOps == {"declareKong", "promotePungToKong", "claimKong"}

IsPrefix(a, b) == Len(a) <= Len(b) /\ SubSeq(b, 1, Len(a)) = a

AllBonus(w) == \A i \in 1..Len(w) : isBonus(w[i])

\* what a kong formation by seat p must have done with the dead wall, from s to t:
\* the tiles are taken from the back; the actor ends in postDraw holding the one
\* non-bonus tile drawn, or the dead wall is empty and the round is a draw;
\* every bonus tile drawn is in the actor's bonus pile
ReplacementDone(s, t, p) ==
    LET drawn == SubSeq(s.deadWall, Len(t.deadWall) + 1, Len(s.deadWall))
        n == Len(drawn)
        hand == t.players[p].handTiles
    IN  /\ IsPrefix(t.deadWall, s.deadWall)
        /\ \/ /\ t.phase = "postDraw"
              /\ t.currentPlayerIndex = p
              /\ n >= 1
              /\ ~isBonus(drawn[1])
              /\ Len(hand) >= 1 /\ hand[Len(hand)] = drawn[1]
              /\ t.players[p].bonusTiles =
                     s.players[p].bonusTiles \o Reverse(SubSeq(drawn, 2, n))
              /\ AllBonus(SubSeq(drawn, 2, n))
           \/ /\ t.phase = "roundOver"
              /\ t.result = DrawResult
              /\ t.deadWall = << >>
              /\ AllBonus(drawn)
              /\ t.players[p].bonusTiles = s.players[p].bonusTiles \o Reverse(drawn)

\* C2: every kong formation is followed by the replacement draw: bonus tiles
\* drawn from the back of the dead wall are set aside until the actor has one
\* non-bonus replacement tile (postDraw) or the dead wall is empty (draw).
C2_KongReplacement ==
    [][last'.op \in KongOps => ReplacementDone(state, state', last'.player)]_vars

claimClass(type) ==
    CASE type = "claimWin" -> 3
      [] type \in {"claimPong", "claimKong"} -> 2
      [] type = "claimChow" -> 1
      [] OTHER -> 0

LastMeldType(s, p) ==
    LET m == s.players[p].openMelds IN IF m = << >> THEN "none" ELSE m[Len(m)].type

MeldCount(s) == SumSeats([i \in Seats |-> Len(s.players[i].openMelds)], Seats)

\* the claim c is the one carried out by the step from s to t
Honoured(s, t, c) ==
    LET p == c.playerIndex
    IN  CASE c.type = "claimWin" ->
                 /\ t.phase = "roundOver"
                 /\ t.result.type = "win"
                 /\ t.result.winnerIndex = p
                 /\ MeldCount(t) = MeldCount(s)
          [] c.type = "claimPong" ->
                 /\ Len(t.players[p].openMelds) = Len(s.players[p].openMelds) + 1
                 /\ LastMeldType(t, p) = "pung"
                 /\ t.result.type # "win"
          [] c.type = "claimKong" ->
                 /\ Len(t.players[p].openMelds) = Len(s.players[p].openMelds) + 1
                 /\ LastMeldType(t, p) = "kong"
                 /\ t.result.type # "win"
          [] c.type = "claimChow" ->
                 /\ Len(t.players[p].openMelds) = Len(s.players[p].openMelds) + 1
                 /\ LastMeldType(t, p) = "chow"
                 /\ t.result.type # "win"
          [] OTHER -> FALSE

\* a step of the game loop that resolved a claim window with at least one claim
Resolved == last'.via = "step" /\ last'.claims # {}

\* C3: of the claims made on one discard exactly one is carried out, and it is
\* of the highest class claimed: win over pong/kong over chow.
C3_ClaimPriority ==
    [][Resolved =>
          /\ Cardinality({c \in last'.claims : Honoured(state, state', c)}) = 1
          /\ MeldCount(state') <= MeldCount(state) + 1
          /\ \A c \in last'.claims :
                Honoured(state, state', c) =>
                    \A d \in last'.claims : claimClass(c.type) >= claimClass(d.type)]_vars

\* a win claim honoured over a pong claim of a seat closer to the discarder and
\* a chow claim of the next seat
C3_Witness ==
    /\ last.via = "step"
    /\ state.result.type = "win"
    /\ \E c \in last.claims, d \in last.claims, e \in last.claims :
          /\ c.type = "claimWin" /\ c.playerIndex = state.result.winnerIndex
          /\ d.type = "claimPong"
          /\ e.type = "claimChow"
          /\ (d.playerIndex - state.result.loserIndex + 4) % 4
                 < (c.playerIndex - state.result.loserIndex + 4) % 4

distance(i, discarderIdx) == (i - discarderIdx + 4) % 4

\* C4: among the claims of the class that is honoured, the one of the seat
\* closest to the discarder going clockwise is carried out.
C4_ClaimTieBreak ==
    [][Resolved =>
          \A c \in last'.claims :
              Honoured(state, state', c) =>
                  \A d \in last'.claims :
                      \/ claimClass(d.type) < claimClass(c.type)
                      \/ /\ claimClass(d.type) = claimClass(c.type)
                         /\ distance(c.playerIndex, state.lastDiscardPlayerIndex)
                                <= distance(d.playerIndex, state.lastDiscardPlayerIndex)]_vars

\* three seats claimed a win; the nearest one won
C4_Witness ==
    /\ last.via = "step"
    /\ state.result.type = "win"
    /\ Cardinality({c \in last.claims : c.type = "claimWin"}) = 3
    /\ distance(state.result.winnerIndex, state.result.loserIndex) = 1

\* a pass transition: the pending discard is given up and the next seat draws
PassTransition == state.phase = "claimWindow" /\ state'.phase = "draw"

\* seat i has a legal claim on the pending discard of s
HasLegalClaim(s, i) ==
    /\ i # s.lastDiscardPlayerIndex
    /\ LET va == getValidActions(s, i)
       IN  \E k \in 1..Len(va) : va[k].type # "pass"

\* seat i declined in the step the record c describes: it was asked by the game
\* loop and claimed nothing, or it is the human seat whose pass was submitted
\* through the controller
Declined(s, c, i) ==
    \/ c.via = "step" /\ i \in c.polled /\ \A d \in c.claims : d.playerIndex # i
    \/ c.via = "api" /\ s.players[i].type = "human"

\* C5: the pending discard resolves through the pass transition only when every
\* non-discarding seat that has a legal claim has declined, whether the pass
\* comes from the game loop or from a human through GameController.passClaim
\* (which GameBridge.pass calls).
C5_DeclineNeverBlocks ==
    [][PassTransition =>
          \A i \in Seats : HasLegalClaim(state, i) => Declined(state, last', i)]_vars

\* the kong formations open in state s, as results of the operation
KongResults(s) ==
    IF s.phase = "claimWindow"
    THEN {claimKong(s, p) : p \in {i \in Seats : canKongFromDiscard(s, i)}}
    ELSE IF s.phase = "postDraw"
    THEN LET va == getValidActions(s, s.currentPlayerIndex)
         IN  {declareKong(s, va[k].tiles) :
                  k \in {j \in 1..Len(va) : va[j].type = "declareKong"}}
             \cup {promotePungToKong(s, va[k].tiles[1]) :
                       k \in {j \in 1..Len(va) : va[j].type = "promotePungToKong"}}
    ELSE {}

EndsInDraw(r) == r.ok /\ r.state.phase = "roundOver" /\ r.state.result = DrawResult

\* C6: a draw from a live wall that holds no tile but bonus tiles, and a kong
\* replacement from a dead wall that holds no tile but bonus tiles, return
\* normally with phase roundOver and a draw result.
C6_ExhaustionIsDraw ==
    /\ (state.phase = "draw" /\ AllBonus(state.wall)) => EndsInDraw(drawTile(state))
    /\ AllBonus(state.deadWall) => \A r \in KongResults(state) : EndsInDraw(r)

\* the operation threw and the state is the one it was given
Fails(r) == ~r.ok /\ r.state = state

\* C7: every operation invoked outside its legal phase throws and leaves the
\* state as it was, whatever its arguments.
C7_PhaseEnforcement ==
    /\ state.phase # "draw" => Fails(drawTile(state))
    /\ state.phase \notin {"postDraw", "discard"} =>
           \A tile \in AnyHandTile : Fails(discardTile(state, tile))
    /\ state.phase # "claimWindow" =>
           /\ Fails(passClaim(state))
           /\ \A p \in Seats :
                 /\ Fails(claimPong(state, p))
                 /\ Fails(claimKong(state, p))
                 /\ Fails(claimWin(state, p))
                 /\ \A chowTiles \in ChowInputs(p) : Fails(claimChow(state, p, chowTiles))
    /\ state.phase # "postDraw" =>
           /\ Fails(declareSelfWin(state))
           /\ \A kongTiles \in KongInputs : Fails(declareKong(state, kongTiles))
           /\ \A tile \in AnyHandTile : Fails(promotePungToKong(state, tile))

\* the discard phase that follows a pong claim, the claimant holding a complete
\* hand: a self-drawn win is refused for the phase alone
C7_Witness ==
    /\ state.phase = "discard"
    /\ last.op = "claimPong"
    /\ parseHand(reconstructFullHand(state.players[state.currentPlayerIndex], Null)).valid

HandSize(s, i) == Len(s.players[i].handTiles) + 3 * Len(s.players[i].openMelds)

\* C8: concealed hand size plus three per declared meld is 14 for the current
\* player in postDraw and discard, and 13 for every other player and for every
\* player in draw and claimWindow.
C8_HandSize ==
    \A i \in Seats :
        IF i = state.currentPlayerIndex /\ state.phase \in {"postDraw", "discard"}
        THEN HandSize(state, i) = 14
        ELSE IF i = state.currentPlayerIndex /\ state.phase = "roundOver"
        THEN HandSize(state, i) \in {13, 14}
        ELSE HandSize(state, i) = 13

\* C9: in claimWindow no claim operation succeeds for the seat that made the
\* pending discard; the call throws and leaves the state as it was.
C9_DiscarderNeverClaims ==
    state.phase = "claimWindow" =>
        LET d == state.lastDiscardPlayerIndex
        IN  /\ Fails(claimPong(state, d))
            /\ Fails(claimKong(state, d))
            /\ Fails(claimWin(state, d))
            /\ \A chowTiles \in ChowInputs(d) : Fails(claimChow(state, d, chowTiles))

\* three tiles of every declared meld
RECURSIVE ThreePerMeld(_)
ThreePerMeld(melds) ==
    IF melds = << >> THEN << >>
    ELSE SubSeq(Head(melds).tiles, 1, 3) \o ThreePerMeld(Tail(melds))

\* 14 tiles that parseHand accepts
Accepted(tiles) == Len(tiles) = 14 /\ parseHand(tiles).valid

ClaimWinTiles(s, p) ==
    s.players[p].handTiles \o << s.lastDiscard >> \o ThreePerMeld(s.players[p].openMelds)

SelfWinTiles(s) ==
    LET p == s.currentPlayerIndex
    IN  s.players[p].handTiles \o ThreePerMeld(s.players[p].openMelds)

\* the operation threw: the state, its phase and its result are as they were
Refused(r) == ~r.ok /\ r.state = state /\ r.state.result = state.result

\* C10: claimWin succeeds only for a seat whose concealed hand, three tiles per
\* declared meld and the pending discard are 14 tiles accepted by parseHand, and
\* declareSelfWin only if the current player's concealed hand and three tiles per
\* declared meld are; otherwise the operation throws, phase and result unchanged.
C10_WinValidation ==
    /\ state.phase = "claimWindow" =>
           \A p \in Seats :
               IF Accepted(ClaimWinTiles(state, p))
               THEN TRUE
               ELSE Refused(claimWin(state, p))
    /\ state.phase = "postDraw" =>
           IF Accepted(SelfWinTiles(state)) THEN TRUE ELSE Refused(declareSelfWin(state))
    /\ last.op = "claimWin" => state.result.type = "win" /\ Accepted(state.result.handTiles)
    /\ last.op = "declareSelfWin" =>
           state.result.type = "win" /\ Accepted(state.result.handTiles)

\* a discard on which the win claim of one seat is accepted and that of another
\* seat refused
C10_Witness ==
    /\ state.phase = "claimWindow"
    /\ \E p \in Seats, q \in Seats :
          /\ p # state.lastDiscardPlayerIndex /\ q # state.lastDiscardPlayerIndex
          /\ claimWin(state, p).ok
          /\ ~claimWin(state, q).ok

\* all but the last element
Front(seq) == SubSeq(seq, 1, Len(seq) - 1)

\* C11: a successful declareSelfWin ends the round with a win of the current
\* player that names no discarder; a successful claimWin ends it with a win of
\* the claimant that names the seat of the pending discard, and that discard is
\* taken off the discarder's discard history.
C11_WinResult ==
    [][/\ last'.op = "declareSelfWin" =>
              /\ state'.phase = "roundOver"
              /\ state'.result.type = "win"
              /\ state'.result.winnerIndex = state.currentPlayerIndex
              /\ state'.result.loserIndex = Null
       /\ last'.op = "claimWin" =>
              LET d == state.lastDiscardPlayerIndex
              IN  /\ state'.phase = "roundOver"
                  /\ state'.result.type = "win"
                  /\ state'.result.winnerIndex = last'.player
                  /\ state'.result.loserIndex = d
                  /\ state'.players[d].discards = Front(state.players[d].discards)
                  /\ state.lastDiscard \notin Range(state'.players[d].discards)]_vars

\* a win on a discard claimed by a seat other than the discarder
C11_Witness ==
    /\ last.op = "claimWin"
    /\ state.phase = "roundOver"
    /\ state.result.loserIndex \in Seats
    /\ state.result.winnerIndex # state.result.loserIndex

\* the seats other than p are as they were
OthersUnchanged(s, t, p) == \A i \in Seats \ {p} : t.players[i] = s.players[i]

\* the draw from s to t took the tiles up to the k-th off the front of the live
\* wall, set the k - 1 bonus tiles aside for the current player and put the
\* k-th, a non-bonus tile, in that player's hand
DrewUpTo(s, t, k) ==
    LET p == s.currentPlayerIndex
    IN  /\ ~isBonus(s.wall[k])
        /\ \A j \in 1..(k - 1) : isBonus(s.wall[j])
        /\ t.wall = SubSeq(s.wall, k + 1, Len(s.wall))
        /\ t.players[p].bonusTiles = s.players[p].bonusTiles \o SubSeq(s.wall, 1, k - 1)
        /\ t.players[p].handTiles = Append(s.players[p].handTiles, s.wall[k])
        /\ t.players[p].openMelds = s.players[p].openMelds
        /\ t.players[p].discards = s.players[p].discards
        /\ OthersUnchanged(s, t, p)
        /\ t.deadWall = s.deadWall
        /\ t.phase = "postDraw"
        /\ t.currentPlayerIndex = p

DrawTransition(s, t) == \E k \in 1..Len(s.wall) : DrewUpTo(s, t, k)

\* C12 as stated: every drawTile from a non-empty wall puts exactly one tile, the
\* first non-bonus tile, in the current player's hand and gives postDraw.
C12_DrawFromNonEmptyWall ==
    [][(last'.op = "drawTile" /\ state.wall # << >>) =>
           DrawTransition(state, state')]_vars

\* C12 (amended): drawTile from a wall that holds a non-bonus tile takes tiles
\* off the front, sets every bonus tile aside for the current player, puts the
\* first non-bonus tile in that player's hand and gives postDraw with the same
\* current player; nothing else changes.  From a non-empty wall of bonus tiles
\* only, all of them are set aside and the round ends in a draw.
C12_DrawTransition ==
    [][last'.op = "drawTile" =>
           /\ ~AllBonus(state.wall) => DrawTransition(state, state')
           /\ (AllBonus(state.wall) /\ state.wall # << >>) =>
                  LET p == state.currentPlayerIndex
                  IN  /\ state'.phase = "roundOver"
                      /\ state'.result = DrawResult
                      /\ state'.wall = << >>
                      /\ state'.players[p].bonusTiles =
                             state.players[p].bonusTiles \o state.wall
                      /\ state'.players[p].handTiles = state.players[p].handTiles
                      /\ OthersUnchanged(state, state', p)]_vars

\* a draw that set a bonus tile aside before it gave a tile to the hand
C12_Witness ==
    /\ last.op = "drawTile"
    /\ state.phase = "postDraw"
    /\ LET p == state.players[state.currentPlayerIndex]
       IN  /\ p.bonusTiles # << >> /\ p.bonusTiles[Len(p.bonusTiles)] = 631
           /\ p.handTiles[Len(p.handTiles)] = 291

\* the multiset of a tile list, as a set of (tile, occurrences)
Without(seq, tile) == SelectSeq(seq, LAMBDA x : x # tile)

\* the discard of s.t. tile by the current player of s gives t
DiscardTransition(s, t, tile) ==
    LET p == s.currentPlayerIndex
    IN  /\ tile \in Range(s.players[p].handTiles)
        /\ t.players[p].handTiles = Without(s.players[p].handTiles, tile)
        /\ Len(t.players[p].handTiles) = Len(s.players[p].handTiles) - 1
        /\ t.players[p].discards = Append(s.players[p].discards, tile)
        /\ t.lastDiscard = tile
        /\ t.lastDiscardPlayerIndex = p
        /\ t.phase = "claimWindow"
        /\ t.firstTurnComplete

\* no discard has been made since the deal
NothingDiscarded(s) ==
    /\ \A i \in Seats : s.players[i].discards = << >>
    /\ \A i \in Seats : \A k \in 1..Len(s.players[i].openMelds) :
          s.players[i].openMelds[k].concealed
    /\ s.lastDiscard = Null

\* C13: discardTile in postDraw or discard removes the named tile from the
\* current player's hand, appends it to that player's discards, records it as
\* the pending discard of that player, gives claimWindow and sets
\* firstTurnComplete; firstTurnComplete is false exactly until the first discard
\* and is changed by no other operation; a tile that is not in the current
\* player's hand is refused, the state unchanged.
C13_DiscardTransition ==
    /\ [](state.firstTurnComplete <=> ~NothingDiscarded(state))
    /\ [](state.phase \in {"postDraw", "discard"} =>
              \A tile \in AllTiles \ HandTilesOf(state.currentPlayerIndex) :
                  Fails(discardTile(state, tile)))
    /\ [][/\ last'.op = "discardTile" =>
                 /\ state.phase \in {"postDraw", "discard"}
                 /\ DiscardTransition(state, state', state'.lastDiscard)
          /\ last'.op # "discardTile" =>
                 state'.firstTurnComplete = state.firstTurnComplete]_vars

\* the first discard of the round: the dealer's, made after a concealed kong
C13_Witness ==
    /\ last.op = "discardTile"
    /\ state.phase = "claimWindow"
    /\ state.firstTurnComplete
    /\ state.turnNumber = 0
    /\ DiscardsMade(state) = 1
    /\ state.players[0].openMelds # << >>

\* the tiles of a list that are of the kind of tile d
OfKind(seq, d) == {x \in Range(seq) : x \div 10 = d \div 10}

\* seat p of s took n tiles of the kind of the pending discard out of its hand
\* and laid them down with the discard as its newest meld, of the given type,
\* exposed; the discard left the discarder's pile; t is the result
ClaimedMeld(s, t, p, n, type) ==
    LET d == s.lastDiscardPlayerIndex
        taken == Range(s.players[p].handTiles) \ Range(t.players[p].handTiles)
        melds == t.players[p].openMelds
        meld == melds[Len(melds)]
    IN  /\ Cardinality(taken) = n
        /\ taken \subseteq OfKind(s.players[p].handTiles, s.lastDiscard)
        /\ Range(t.players[p].handTiles) \subseteq Range(s.players[p].handTiles)
        /\ melds = Append(s.players[p].openMelds, meld)
        /\ meld.type = type
        /\ ~meld.concealed
        /\ Len(meld.tiles) = n + 1
        /\ Range(meld.tiles) = taken \cup {s.lastDiscard}
        /\ t.players[d].discards = Front(s.players[d].discards)
        /\ t.currentPlayerIndex = p

\* C14: claimPong by seat p succeeds iff the phase is claimWindow, p is not the
\* discarder and p holds at least 2 tiles of the pending discard's kind; then 2
\* such tiles leave p's hand for an exposed pung with the discard, the discard
\* leaves the discarder's pile, p is the current player and the phase is discard.
C14_PongClaim ==
    \A p \in Seats :
        LET r == claimPong(state, p)
            allowed == /\ state.phase = "claimWindow"
                       /\ p # state.lastDiscardPlayerIndex
                       /\ Cardinality(OfKind(state.players[p].handTiles,
                                             state.lastDiscard)) >= 2
        IN  /\ r.ok <=> allowed
            /\ ~r.ok => r.state = state
            /\ r.ok => /\ ClaimedMeld(state, r.state, p, 2, "pung")
                       /\ r.state.phase = "discard"
                       /\ Len(r.state.players[p].handTiles)
                              = Len(state.players[p].handTiles) - 2

\* a pong carried out by the game loop: the claimant is to discard
C14_Witness ==
    /\ last.op = "claimPong"
    /\ last.via = "step"
    /\ state.phase = "discard"
    /\ state.currentPlayerIndex = last.player
    /\ LastMeldType(state, last.player) = "pung"

\* the tiles a and b form with the discard d a run of three in one numbered suit
IsRun(d, a, b) ==
    /\ d \div 100 \in {1, 2, 3}
    /\ a \div 100 = d \div 100
    /\ b \div 100 = d \div 100
    /\ \E m \in 1..7 : {(d \div 10) % 10, (a \div 10) % 10, (b \div 10) % 10}
                           = {m, m + 1, m + 2}

\* what claimChow does in the present state with every seat and pair of tiles
ChowClaimContract ==
    \A p \in Seats : \A chowTiles \in ChowInputs(p) :
        LET r == claimChow(state, p, chowTiles)
            hand == state.players[p].handTiles
            allowed == /\ state.phase = "claimWindow"
                       /\ p = (state.lastDiscardPlayerIndex + 1) % 4
                       /\ chowTiles[1] \in Range(hand)
                       /\ chowTiles[2] \in Range(hand)
                       /\ IsRun(state.lastDiscard, chowTiles[1], chowTiles[2])
            d == state.lastDiscardPlayerIndex
            melds == r.state.players[p].openMelds
            meld == melds[Len(melds)]
        IN  /\ r.ok <=> allowed
            /\ ~r.ok => r.state = state
            /\ r.ok =>
                  /\ Range(r.state.players[p].handTiles) = Range(hand) \ Range(chowTiles)
                  /\ Len(r.state.players[p].handTiles) = Len(hand) - 2
                  /\ melds = Append(state.players[p].openMelds, meld)
                  /\ meld.type = "chow"
                  /\ ~meld.concealed
                  /\ Len(meld.tiles) = 3
                  /\ Range(meld.tiles) = Range(chowTiles) \cup {state.lastDiscard}
                  /\ r.state.players[d].discards = Front(state.players[d].discards)
                  /\ r.state.currentPlayerIndex = p
                  /\ r.state.phase = "discard"

\* C15: claimChow by seat p with two tiles succeeds iff the phase is claimWindow,
\* p is the seat after the discarder, both tiles are in p's hand and they form
\* with the pending discard a run of three in one numbered suit; otherwise it
\* throws, the state unchanged.  On success the two tiles leave p's hand, an
\* exposed chow of the three tiles is added, p is current and the phase discard.
C15_ChowClaim == []ChowClaimContract

\* a discard that the next seat can chow and that a seat further on, holding
\* two tiles that form a run with it, is refused
C15_Witness ==
    /\ state.phase = "claimWindow"
    /\ \E p \in Seats, q \in Seats :
          /\ p = (state.lastDiscardPlayerIndex + 1) % 4
          /\ \E chowTiles \in ChowInputs(p) : claimChow(state, p, chowTiles).ok
          /\ q \notin {p, state.lastDiscardPlayerIndex}
          /\ \E a \in HandTilesOf(q), b \in HandTilesOf(q) : IsRun(state.lastDiscard, a, b)

\* C16: in claimWindow passClaim succeeds, clears the pending discard and its
\* owner, makes (discarder + 1) mod 4 the current player and sets the phase to
\* draw; the players (hands, melds, bonus piles, discard piles) and both walls
\* are unchanged, and the passed discard is still the last tile of the
\* discarder's pile.
C16_PassTransition ==
    state.phase = "claimWindow" =>
        LET r == passClaim(state)
            d == state.lastDiscardPlayerIndex
            pile == r.state.players[d].discards
        IN  /\ r.ok
            /\ r.state.lastDiscard = Null
            /\ r.state.lastDiscardPlayerIndex = Null
            /\ r.state.currentPlayerIndex = (d + 1) % 4
            /\ r.state.phase = "draw"
            /\ r.state.players = state.players
            /\ r.state.wall = state.wall
            /\ r.state.deadWall = state.deadWall
            /\ pile # << >>
            /\ pile[Len(pile)] = state.lastDiscard

\* a pass has been taken: the seat after the discarder is to draw
C16_Witness ==
    /\ last.op = "passClaim"
    /\ state.phase = "draw"
    /\ state.lastDiscard = Null
    /\ \E d \in Seats :
          /\ state.currentPlayerIndex = (d + 1) % 4
          /\ state.players[d].discards # << >>
          /\ state.players[state.currentPlayerIndex].handTiles # << >>

\* the tile lists a declareKong call is tried with: the four tiles of a kind
\* some seat holds, one tile four times, and the first three and the first four
\* tiles of the current player's hand
KongCalls ==
    LET hand == state.players[state.currentPlayerIndex].handTiles
    IN  KongInputs
            \cup {<< t, t, t, t >> : t \in Range(hand)}
            \cup {SubSeq(hand, 1, n) : n \in {k \in {3, 4} : k <= Len(hand)}}

\* what declareKong does in the present state with every list of tiles tried
ConcealedKongContract ==
    \A kongTiles \in KongCalls :
        LET r == declareKong(state, kongTiles)
            pi == state.currentPlayerIndex
            hand == state.players[pi].handTiles
            handAfter == r.state.players[pi].handTiles
            melds == r.state.players[pi].openMelds
            allowed == /\ state.phase = "postDraw"
                       /\ Len(kongTiles) = 4
                       /\ Cardinality(Range(kongTiles)) = 4
                       /\ \A t \in Range(kongTiles) : t \div 10 = kongTiles[1] \div 10
                       /\ Range(kongTiles) \subseteq Range(hand)
        IN  /\ r.ok <=> allowed
            /\ ~r.ok => r.state = state
            /\ r.ok =>
                  /\ Range(hand) \ Range(handAfter) = Range(kongTiles)
                  /\ Len(handAfter) \in {Len(hand) - 4, Len(hand) - 3}
                  /\ melds = Append(state.players[pi].openMelds,
                                    [type |-> "kong", tiles |-> kongTiles,
                                     concealed |-> TRUE])
                  /\ OthersUnchanged(state, r.state, pi)
                  /\ (\E i \in 1..Len(state.deadWall) : ~isBonus(state.deadWall[i])) =>
                        /\ Len(handAfter) = Len(hand) - 3
                        /\ handAfter[Len(handAfter)] \in Range(state.deadWall)
                        /\ r.state.phase = "postDraw"
                        /\ r.state.currentPlayerIndex = pi

\* C17: declareKong succeeds iff the phase is postDraw and the named tiles are
\* four different tiles of one kind, all in the current player's hand; otherwise
\* it throws, the state unchanged.  On success exactly those four tiles leave
\* the hand, one concealed kong of them is added after the player's melds and
\* the replacement is drawn: when the dead wall holds a non-bonus tile the hand
\* is smaller by exactly 3 and the phase is postDraw for the same player.
C17_ConcealedKong == []ConcealedKongContract

\* a concealed kong has been declared and a non-bonus replacement drawn
C17_Witness ==
    /\ last.op = "declareKong"
    /\ state.phase = "postDraw"
    /\ state.currentPlayerIndex = last.player
    /\ \E i \in 1..Len(state.players[last.player].openMelds) :
          LET m == state.players[last.player].openMelds[i]
          IN  m.type = "kong" /\ m.concealed /\ Len(m.tiles) = 4

\* the tiles a promotePungToKong call is tried with: every tile in a hand and
\* every tile of a kind some seat has melded
PromoteCalls ==
    AnyHandTile \cup
        UNION {UNION {Range(Four(tileKey(state.players[i].openMelds[j].tiles[1]))) :
                          j \in 1..Len(state.players[i].openMelds)} : i \in Seats}

\* what promotePungToKong does in the present state with every tile tried
PromotionContract ==
    \A tile \in PromoteCalls :
        LET r == promotePungToKong(state, tile)
            pi == state.currentPlayerIndex
            hand == state.players[pi].handTiles
            handAfter == r.state.players[pi].handTiles
            before == state.players[pi].openMelds
            after == r.state.players[pi].openMelds
            isPung(j) == /\ before[j].type = "pung"
                         /\ ~before[j].concealed
                         /\ before[j].tiles[1] \div 10 = tile \div 10
            allowed == /\ state.phase = "postDraw"
                       /\ \E j \in 1..Len(before) : isPung(j)
                       /\ tile \in Range(hand)
        IN  /\ r.ok <=> allowed
            /\ ~r.ok => r.state = state
            /\ r.ok =>
                  /\ Range(hand) \ Range(handAfter) = {tile}
                  /\ Len(handAfter) \in {Len(hand) - 1, Len(hand)}
                  /\ Len(after) = Len(before)
                  /\ \E j \in 1..Len(before) :
                        /\ isPung(j)
                        /\ after[j] = [type |-> "kong",
                                       tiles |-> Append(before[j].tiles, tile),
                                       concealed |-> FALSE]
                        /\ Len(after[j].tiles) = 4
                        /\ \A k \in 1..Len(before) : k # j => after[k] = before[k]
                  /\ OthersUnchanged(state, r.state, pi)
                  /\ r.state.phase \in {"postDraw", "roundOver"}
                  /\ r.state.currentPlayerIndex = pi
                  /\ r.state.lastDiscard = state.lastDiscard

KindsOf(tiles) == {tiles[i] \div 10 : i \in 1..Len(tiles)}

\* getValidActions(state, seat) holds an action of the type for those tile kinds
Listed(seat, type, tiles) ==
    \E a \in Range(getValidActions(state, seat)) :
        a.type = type /\ KindsOf(a.tiles) = KindsOf(tiles)

\* every call the engine accepts for the seat is in the seat's list of actions;
\* the claim of a win is left to AcceptedWinListed
AcceptedListed(seat) ==
    /\ seat = state.currentPlayerIndex =>
          /\ \A tile \in AnyHandTile :
                discardTile(state, tile).ok => Listed(seat, "discard", << tile >>)
          /\ \A kongTiles \in KongCalls :
                declareKong(state, kongTiles).ok => Listed(seat, "declareKong", kongTiles)
          /\ \A tile \in PromoteCalls :
                promotePungToKong(state, tile).ok =>
                    Listed(seat, "promotePungToKong", << tile >>)
          /\ declareSelfWin(state).ok => Listed(seat, "declareSelfWin", << >>)
    /\ claimPong(state, seat).ok => Listed(seat, "claimPong", << >>)
    /\ claimKong(state, seat).ok => Listed(seat, "claimKong", << >>)
    /\ \A chowTiles \in ChowInputs(seat) :
          claimChow(state, seat, chowTiles).ok => Listed(seat, "claimChow", chowTiles)
    /\ (seat # state.lastDiscardPlayerIndex /\ passClaim(state).ok) =>
          Listed(seat, "pass", << >>)

AcceptedWinListed(seat) == claimWin(state, seat).ok => Listed(seat, "claimWin", << >>)

\* C19: for every seat, every call of discardTile, declareKong,
\* promotePungToKong, declareSelfWin, claimPong, claimChow, claimKong, claimWin
\* or passClaim that the engine accepts for the seat has an action of its type,
\* for the same tile kinds, in getValidActions(state, seat).
C19_LegalActionCompleteness ==
    \A seat \in Seats : AcceptedListed(seat) /\ AcceptedWinListed(seat)

RoundOverTerminal ==
    /\ state.phase = "roundOver" =>
          /\ Fails(drawTile(state))
          /\ \A tile \in AnyHandTile : Fails(discardTile(state, tile))
          /\ Fails(passClaim(state))
          /\ \A p \in Seats :
                /\ Fails(claimPong(state, p))
                /\ Fails(claimKong(state, p))
                /\ Fails(claimWin(state, p))
                /\ \A chowTiles \in ChowInputs(p) : Fails(claimChow(state, p, chowTiles))
                /\ getValidActions(state, p) = << >>
          /\ Fails(declareSelfWin(state))
          /\ \A kongTiles \in KongCalls : Fails(declareKong(state, kongTiles))
          /\ \A tile \in PromoteCalls : Fails(promotePungToKong(state, tile))
          /\ stepPauses(state)
          /\ state.result.type \in {"win", "draw"}
    /\ state.phase # "roundOver" => state.result = NoResult

\* C21: roundOver is terminal: every transition operation fails, getValidActions
\* returns no action for any seat, the game loop returns the state as it is, so
\* the state never changes again; and the result is non-null (a win or a draw)
\* exactly in the roundOver states.
C21_RoundOverTerminal ==
    /\ []RoundOverTerminal
    /\ [][state.phase = "roundOver" => state' = state]_vars

\* the round was won on a discard, which is still pending, and the human seat
\* has asked for its actions since
C21_Witness ==
    /\ state.phase = "roundOver"
    /\ state.result.type = "win"
    /\ state.lastDiscard # Null
    /\ last.op = "getValidActions"
    /\ last.actions = << >>

\* ------------------------------------------------------------------------
\* The game loop on its own: four AI seats, stepped until it stops
\* ------------------------------------------------------------------------

\* A position in which seat 2 has declared two melds and holds three bamboo 6,
\* three dots 4 and a green dragon; seat 0, to act, holds the fourth bamboo 6 and
\* seat 3 the fourth dots 4.  One tile is left in the live wall, and the four
\* tiles left in the dead wall are bonus tiles.
MeldsD == [MeldsA EXCEPT ![2] = << Meld("pung", Three(27), FALSE),
                                    Meld("chow", Run(21, 2), FALSE) >>]

HandsD ==
    [i \in Seats |->
        CASE i = 0 -> << 161, 131, 141, 311, 312 >>
          [] i = 1 -> << 111, 121, 313, 314 >>
          [] i = 2 -> << 162, 163, 164, 342, 343, 344, 411 >>
          [] OTHER -> << 341, 371, 381, 391 >>]

WallD == << 291 >>

DeadWallD == << 611, 621, 711, 721 >>

LayoutD == [hands |-> HandsD, melds |-> MeldsD, current |-> 0, types |-> AllAI,
            deadWalls |-> {DeadWallD}]

\* the positions with four AI seats
LoopInit ==
    /\ \/ \E layout \in {l \in Layouts : l.types = AllAI},
             wall \in Suffixes(WallPools, MaxWall) :
             \E deadWall \in Suffixes(layout.deadWalls, MaxDeadWall) :
                state = Position(layout, layout.types, wall, deadWall)
       \/ state = Position(LayoutD, AllAI, WallD, DeadWallD)
    /\ last = Api("createGame", Null)

\* one call of stepGame that does not pause
LoopNext ==
    \/ StepClaimWindow
    \/ StepDraw
    \/ StepTurn

\* advanceGame: stepGame is called again until it reports that the loop is done
LoopSpec == LoopInit /\ [][LoopNext]_vars /\ WF_vars(LoopNext)

\* the step of the loop in the present state is carried out without an error,
\* whichever actions the decision source picks
StepNeverThrows ==
    /\ state.phase = "draw" => drawTile(state).ok
    /\ state.phase \in {"postDraw", "discard"} =>
          LET validActions == getValidActions(state, state.currentPlayerIndex)
          IN  /\ validActions # << >>
              /\ \A action \in Decisions(validActions) : ApplyTurnAction(state, action).ok
    /\ state.phase = "claimWindow" =>
          \A d0 \in Responses(state, 0), d1 \in Responses(state, 1),
             d2 \in Responses(state, 2), d3 \in Responses(state, 3) :
                resolveClaimWindow(state, << d0, d1, d2, d3 >>).ok

\* what is left to do in a round: tiles move from the walls to the hands, from
\* the hands to the discard piles and from there to the melds, and a claim
\* window is followed by a draw or a discard
Rank(s) ==
    8 * (Len(s.wall) + Len(s.deadWall))
        + 4 * SumSeats([i \in Seats |-> Len(s.players[i].handTiles)], Seats)
        + SumSeats([i \in Seats |-> Len(s.players[i].discards)], Seats)
        + (CASE s.phase = "roundOver" -> 0
             [] s.phase = "claimWindow" -> 2
             [] OTHER -> 1)

\* every step of the loop leaves less to do
StepsTowardsEnd == [][Rank(state') < Rank(state)]_vars

\* C22: with four AI seats, stepping the game loop reaches roundOver after
\* finitely many transitions whichever legal actions are picked: no step throws
\* or is stuck in another phase, and every step leaves less to do in the round.
C22_RoundCompletion ==
    /\ []StepNeverThrows
    /\ StepsTowardsEnd

\* ------------------------------------------------------------------------
\* Hand parser as a function of its input array
\* ------------------------------------------------------------------------

isWinningHand(tiles) == parseHand(tiles).valid

\* longest input array
MaxTiles == 15

\* kinds the generated arrays are made of: a stretch of one numbered suit
\* and one honor
ParseKinds == {11, 12, 13, 14, 15, 41}

\* kinds put in the place of one tile of a complete hand
ReplacementKinds == {12, 19, 21, 41, 54, 61}

\* one of each terminal and honor, and a second west wind
OrphanHand == << 111, 191, 211, 291, 311, 391, 411, 421, 431, 511, 521, 531, 541, 542 >>

\* seven pairs
PairsHand == << 171, 172, 181, 182, 221, 222, 231, 232, 351, 352, 421, 422, 531, 532 >>

\* 111 222 333 of one suit, a triplet and a pair
AmbiguousHand == << 311, 312, 313, 321, 322, 323, 331, 332, 333, 431, 432, 433, 521, 522 >>

CompleteHands == {OrphanHand, PairsHand, AmbiguousHand}

\* the tile of a kind with the lowest copy number the array does not hold
FreshTile(tiles, k) ==
    k * 10 + CHOOSE c \in 1..4 :
                 /\ k * 10 + c \notin Range(tiles)
                 /\ \A b \in 1..(c - 1) : k * 10 + b \in Range(tiles)

Replaced(tiles, i, k) == [tiles EXCEPT ![i] = FreshTile(RemoveAt(tiles, i), k)]

ParseInputs ==
    {<< >>} \cup CompleteHands
    \cup {Replaced(h, i, k) : h \in CompleteHands, i \in 1..14, k \in ReplacementKinds}

\* state is the array handed to the parser, last the call made on it
ParseInit ==
    /\ state \in ParseInputs
    /\ last = [op |-> "none"]

AddTile ==
    \E k \in ParseKinds :
        /\ Len(state) < MaxTiles
        /\ Len(state) > 0 => k >= tileKey(state[Len(state)])
        /\ countInHand(state, k) < 4
        /\ state' = Append(state, FreshTile(state, k))
        /\ last' = [op |-> "none"]

ParseHand ==
    /\ last.op = "none"
    /\ last' = [op |-> "parseHand",
                result |-> parseHand(state),
                winning |-> isWinningHand(state)]
    /\ UNCHANGED state

ParseNext == AddTile \/ ParseHand

ParseSpec == ParseInit /\ [][ParseNext]_vars

\* ------------------------------------------------------------------------
\* What the parser is to compute, stated on the array itself
\* ------------------------------------------------------------------------

Occurrences(tiles, k) == Cardinality({i \in 1..Len(tiles) : tiles[i] \div 10 = k})

KindsIn(tiles) == {tiles[i] \div 10 : i \in 1..Len(tiles)}

ParserInput(tiles) == Len(tiles) = 14 /\ \A i \in 1..14 : tiles[i] < 600

\* a triplet of one kind, or a run of three consecutive values of one
\* numbered suit named by its lowest kind
TripletOf(k) == [type |-> "pung", key |-> k]

RunFrom(k) == [type |-> "chow", key |-> k]

MeldsWithin(tiles) ==
    {TripletOf(k) : k \in {j \in KindsIn(tiles) : Occurrences(tiles, j) >= 3}}
    \cup {RunFrom(k) : k \in {j \in KindsIn(tiles) :
                                  /\ j \div 10 \in {1, 2, 3}
                                  /\ j % 10 <= 7
                                  /\ j + 1 \in KindsIn(tiles)
                                  /\ j + 2 \in KindsIn(tiles)}}

TakenBy(m, k) ==
    IF m.type = "pung" THEN (IF k = m.key THEN 3 ELSE 0)
    ELSE (IF k \in {m.key, m.key + 1, m.key + 2} THEN 1 ELSE 0)

\* a sequence of melds read as a multiset
AsBag(melds) ==
    [m \in Range(melds) |-> Cardinality({i \in 1..Len(melds) : melds[i] = m})]

\* every way of splitting the array into four melds and a pair
Partitions(tiles) ==
    LET ms == MeldsWithin(tiles)
        ps == {k \in KindsIn(tiles) : Occurrences(tiles, k) >= 2}
        fits(t, p) ==
            \A k \in KindsIn(tiles) :
                TakenBy(t[1], k) + TakenBy(t[2], k) + TakenBy(t[3], k) + TakenBy(t[4], k)
                + (IF k = p THEN 2 ELSE 0) = Occurrences(tiles, k)
    IN  {[melds |-> AsBag(t), pair |-> p] :
             << t, p >> \in {x \in (ms \X ms \X ms \X ms) \X ps : fits(x[1], x[2])}}

SevenPairsCondition(tiles) ==
    /\ Cardinality(KindsIn(tiles)) = 7
    /\ \A k \in KindsIn(tiles) : Occurrences(tiles, k) = 2

TerminalHonorKinds ==
    {s * 10 + v : s \in {1, 2, 3}, v \in {1, 9}} \cup {41, 42, 43, 51, 52, 53, 54}

ThirteenDistinctCondition(tiles) ==
    /\ \A k \in TerminalHonorKinds : Occurrences(tiles, k) \in {1, 2}
    /\ Cardinality({k \in TerminalHonorKinds : Occurrences(tiles, k) = 2}) = 1
    /\ KindsIn(tiles) \subseteq TerminalHonorKinds

Parsed == last.op = "parseHand"

\* C23: for an array of 14 non-bonus tiles the parser (and isWinningHand)
\* answers valid exactly when the tiles split into four melds (triplets or
\* runs) and a pair, or are seven pairs, or are the thirteen terminals and
\* honors with one of them doubled; an array failing all three is answered
\* with valid false, no decomposition and both pattern flags false.
C23_Validity ==
    (Parsed /\ ParserInput(state)) =>
        LET wins == \/ Partitions(state) # {}
                    \/ SevenPairsCondition(state)
                    \/ ThirteenDistinctCondition(state)
        IN  /\ last.result.valid = wins
            /\ last.winning = wins
            /\ ~wins => last.result = [valid |-> FALSE,
                                       decompositions |-> << >>,
                                       sevenPairs |-> FALSE,
                                       thirteenOrphans |-> FALSE]

\* a hand that is neither seven pairs nor thirteen distinct has been parsed
\* and found to split into four melds and a pair, two of the melds runs
C23_Witness ==
    /\ Parsed
    /\ ParserInput(state)
    /\ last.result.valid
    /\ ~last.result.sevenPairs
    /\ ~last.result.thirteenOrphans
    /\ \E i \in 1..Len(last.result.decompositions) :
           Cardinality({j \in 1..4 :
               last.result.decompositions[i].melds[j].type = "chow"}) >= 2

\* the melds of a returned decomposition read as a multiset, and its pair
AsPartition(d) == [melds |-> AsBag(d.melds), pair |-> d.pair]

UsesTheTiles(d, tiles) ==
    /\ Len(d.melds) = 4
    /\ \A j \in 1..4 : d.melds[j].type \in {"pung", "chow"}
    /\ \A k \in KindsIn(tiles) \cup {d.pair} \cup {d.melds[j].key + n : j \in 1..4, n \in 0..2} :
           TakenBy(d.melds[1], k) + TakenBy(d.melds[2], k) + TakenBy(d.melds[3], k)
           + TakenBy(d.melds[4], k) + (IF k = d.pair THEN 2 ELSE 0) = Occurrences(tiles, k)

\* C24: for an array of 14 non-bonus tiles the decompositions returned by
\* the parser, each read as a multiset of melds and a pair, are exactly the
\* ways of splitting the tiles into four melds and a pair, and each of them
\* uses the tiles of the array kind by kind: four melds of three and a pair.
C24_ExhaustiveDecomposition ==
    (Parsed /\ ParserInput(state)) =>
        /\ {AsPartition(d) : d \in Range(last.result.decompositions)} = Partitions(state)
        /\ \A d \in Range(last.result.decompositions) : UsesTheTiles(d, state)

\* 111 222 333 of one suit has been parsed and returned both as three
\* triplets and as three runs
C24_Witness ==
    /\ Parsed
    /\ state = AmbiguousHand
    /\ \E d \in Range(last.result.decompositions) :
           \A j \in 1..4 : d.melds[j].type = "pung"
    /\ \E d \in Range(last.result.decompositions) :
           Cardinality({j \in 1..4 : d.melds[j] = DMeld("chow", 31)}) = 3

\* C25: for an array of 14 non-bonus tiles the parser reports sevenPairs
\* exactly when the tiles are seven distinct kinds, each held twice; a hand
\* holding four tiles of one kind is not reported as seven pairs.
C25_SevenPairs ==
    (Parsed /\ ParserInput(state)) =>
        /\ last.result.sevenPairs = SevenPairsCondition(state)
        /\ (\E k \in KindsIn(state) : Occurrences(state, k) = 4) => ~last.result.sevenPairs

\* a hand of four tiles of one kind and five pairs has been parsed
C25_Witness ==
    /\ Parsed
    /\ ParserInput(state)
    /\ \E k \in KindsIn(state) : Occurrences(state, k) = 4
    /\ \A k \in KindsIn(state) : Occurrences(state, k) \in {2, 4}

\* C26: for an array of 14 non-bonus tiles the parser reports
\* thirteenOrphans exactly when every terminal and honor kind is held once
\* or twice, exactly one of them twice, and no tile is of another kind.
C26_ThirteenDistinct ==
    (Parsed /\ ParserInput(state)) =>
        last.result.thirteenOrphans = ThirteenDistinctCondition(state)

\* the thirteen terminals and honors with one of them doubled have been
\* parsed and reported
C26_Witness ==
    /\ Parsed
    /\ ParserInput(state)
    /\ last.result.thirteenOrphans
    /\ last.result.valid
    /\ last.result.decompositions = << >>

\* C27: an array that is not of 14 tiles, or holds a bonus tile, is answered
\* with valid false, no decomposition and both pattern flags false; the
\* parser answers every array.
C27_ParsePreconditions ==
    Parsed =>
        /\ last.result.valid \in BOOLEAN
        /\ ~ParserInput(state) =>
               /\ ~last.result.valid
               /\ last.result.decompositions = << >>
               /\ ~last.result.sevenPairs
               /\ ~last.result.thirteenOrphans
               /\ ~last.winning

\* an array of 14 tiles, one of them a bonus tile, has been parsed
C27_Witness ==
    /\ Parsed
    /\ Len(state) = 14
    /\ \E i \in 1..14 : state[i] >= 600
    /\ ~last.result.valid

\* ------------------------------------------------------------------------
\* The deal
\* ------------------------------------------------------------------------

\* the 148 tiles in the order they are made: bamboo, dots, characters (four
\* copies of 1 to 9), the winds east, south, west, north, the dragons red,
\* green, white, then the bonus tiles, one of each
createAllTiles ==
    LET copy(i) == ((i - 1) % 4) + 1
        group(i) == ((i - 1) \div 4) + 1
        numbered == [i \in 1..108 |->
                        << 1, 3, 2 >>[((i - 1) \div 36) + 1] * 100
                        + ((((i - 1) % 36) \div 4) + 1) * 10 + copy(i)]
        winds == [i \in 1..16 |-> 500 + << 1, 3, 4, 2 >>[group(i)] * 10 + copy(i)]
        dragons == [i \in 1..12 |-> 400 + << 2, 1, 3 >>[group(i)] * 10 + copy(i)]
        bonus == [i \in 1..12 |-> (5 + group(i)) * 100 + copy(i) * 10 + 1]
    IN  numbered \o winds \o dragons \o bonus

\* steps the shuffled order takes through the unshuffled one
Strides == {1, 3, 5, 7}

\* shuffle: a permutation of the tiles; the one Math.random picks is drawn
\* from the orders that walk the array from an offset with a fixed stride
shuffle(tiles, stride, offset) ==
    [i \in 1..Len(tiles) |-> tiles[(((i - 1) * stride + offset) % Len(tiles)) + 1]]

\* one pass of replaceBonusTiles over the hand, from its last tile down
RECURSIVE replacePass(_, _)
replacePass(p, i) ==
    IF i = 0 THEN p
    ELSE IF isBonus(p.handTiles[i])
    THEN replacePass([handTiles |-> IF p.wall # << >>
                                    THEN [p.handTiles EXCEPT ![i] = p.wall[Len(p.wall)]]
                                    ELSE RemoveAt(p.handTiles, i),
                      bonusTiles |-> Append(p.bonusTiles, p.handTiles[i]),
                      wall |-> IF p.wall # << >>
                               THEN SubSeq(p.wall, 1, Len(p.wall) - 1)
                               ELSE p.wall,
                      foundBonus |-> TRUE], i - 1)
    ELSE replacePass(p, i - 1)

RECURSIVE replaceLoop(_)
replaceLoop(p) ==
    IF p.foundBonus /\ p.wall # << >>
    THEN replaceLoop(replacePass([p EXCEPT !.foundBonus = FALSE], Len(p.handTiles)))
    ELSE p

\* replaceBonusTiles making one pass only
replaceBonusTilesOnce(handTiles, wall) ==
    replacePass([handTiles |-> handTiles, bonusTiles |-> << >>, wall |-> wall,
                 foundBonus |-> FALSE], Len(handTiles))

\* passes are repeated until one finds no bonus tile in the hand
replaceBonusTiles(handTiles, wall) ==
    replaceLoop([handTiles |-> handTiles, bonusTiles |-> << >>, wall |-> wall,
                 foundBonus |-> TRUE])

dealGame(shuffled, dealerIndex) ==
    LET n == Len(shuffled)
        deadWall == SubSeq(shuffled, n - 13, n)
        wall == SubSeq(shuffled, 1, n - 14)
        \* 4 tiles at a time for 3 rounds, then 1 each, then 1 more to the dealer
        dealt(i) ==
            SubSeq(wall, 4 * i + 1, 4 * i + 4)
            \o SubSeq(wall, 16 + 4 * i + 1, 16 + 4 * i + 4)
            \o SubSeq(wall, 32 + 4 * i + 1, 32 + 4 * i + 4)
            \o << wall[48 + i + 1] >>
            \o (IF i = dealerIndex THEN << wall[53] >> ELSE << >>)
        r0 == replaceBonusTiles(dealt(0), SubSeq(wall, 54, Len(wall)))
        r1 == replaceBonusTiles(dealt(1), r0.wall)
        r2 == replaceBonusTiles(dealt(2), r1.wall)
        r3 == replaceBonusTiles(dealt(3), r2.wall)
        r == << r0, r1, r2, r3 >>
    IN  [wall |-> r3.wall,
         deadWall |-> deadWall,
         players |-> [i \in Seats |->
                         [seat |-> allSeats[((i - dealerIndex + 4) % 4) + 1],
                          handTiles |-> r[i + 1].handTiles,
                          bonusTiles |-> r[i + 1].bonusTiles]]]

createGame(playerTypes, dealerIndex, shuffled) ==
    LET setup == dealGame(shuffled, dealerIndex)
    IN  [players |-> [i \in Seats |->
                         [seat |-> setup.players[i].seat,
                          type |-> playerTypes[i],
                          handTiles |-> setup.players[i].handTiles,
                          openMelds |-> << >>,
                          bonusTiles |-> setup.players[i].bonusTiles,
                          discards |-> << >>]],
         wall |-> setup.wall,
         deadWall |-> setup.deadWall,
         currentPlayerIndex |-> dealerIndex,
         phase |-> "postDraw",
         turnNumber |-> 0,
         firstTurnComplete |-> FALSE,
         dealerIndex |-> dealerIndex,
         lastDiscard |-> Null,
         lastDiscardPlayerIndex |-> Null,
         result |-> NoResult]

\* state is the shuffled tile array and the dealer until the game is created
DealInit ==
    /\ \E stride \in Strides, offset \in 0..(TileSetSize - 1), dealerIndex \in Seats :
           state = [tiles |-> shuffle(createAllTiles, stride, offset),
                    dealerIndex |-> dealerIndex]
    /\ last = [op |-> "shuffle"]

CreateGame ==
    /\ last.op = "shuffle"
    /\ state' = createGame(AllAI, state.dealerIndex, state.tiles)
    /\ last' = [op |-> "createGame", dealerIndex |-> state.dealerIndex,
                shuffled |-> state.tiles]

DealNext == CreateGame

DealSpec == DealInit /\ [][DealNext]_vars

\* every tile of the dealt state, zone after zone
DealtTiles(s) ==
    s.players[0].handTiles \o s.players[1].handTiles
    \o s.players[2].handTiles \o s.players[3].handTiles
    \o s.players[0].bonusTiles \o s.players[1].bonusTiles
    \o s.players[2].bonusTiles \o s.players[3].bonusTiles
    \o s.wall \o s.deadWall

DigitStrings == {<< >>, << 0 >>, << 1 >>, << 2 >>, << 9 >>, << 0, 1 >>, << 1, 0 >>, << 9, 9 >>}

AnswerContents ==
    {[kind |-> k, action |-> ActionField(FALSE, << >>)] : k \in {"none", "noJson", "badJson"}}
    \cup {[kind |-> "json", action |-> ActionField(negative, digits)] :
              negative \in BOOLEAN, digits \in DigitStrings}

FirstAction == [kind |-> "json", action |-> ActionField(FALSE, << 0 >>)]

\* the remote call: every answer with the key set and the request served,
\* and an answer naming the first action with no key, with a status that is
\* not ok, with fetch failing and with fetch aborted after the timeout
Remotes ==
    {[apiKey |-> TRUE, fetch |-> "ok", content |-> c] : c \in AnswerContents}
    \cup {[apiKey |-> FALSE, fetch |-> "ok", content |-> FirstAction]}
    \cup {[apiKey |-> TRUE, fetch |-> f, content |-> FirstAction] :
              f \in {"httpError", "exception", "timeout"}}

\* the state with its prevailing wind
WithWind(s, wind) == [prevailingWind |-> wind] @@ s

\* the remote call gives no usable answer for a list of n actions
RemoteFails(remote, n) ==
    \/ ~remote.apiKey
    \/ remote.fetch # "ok"
    \/ remote.content.kind # "json"
    \/ remote.content.action.digits = << >>
    \/ DigitsValue(remote.content.action.digits) >= n
    \/ remote.content.action.negative /\ DigitsValue(remote.content.action.digits) > 0

\* getAIDecision is asked for seat i by stepGame: the seat to act after its
\* draw, or a seat with a claim to consider
Consulted(s, i) ==
    /\ s.players[i].type = "ai"
    /\ \/ s.phase \in {"postDraw", "discard"} /\ i = s.currentPlayerIndex
       \/ s.phase = "claimWindow" /\ Asked(s, i)

\* Seat 0 is to act with two melds declared.  Its green dragon can be claimed
\* for a pong by seat 1, its east wind for a pong or a kong by seat 2, whose
\* seat wind is west.
MeldsE == [MeldsA EXCEPT ![0] = << Meld("pung", Three(42), FALSE),
                                    Meld("chow", Run(21, 1), FALSE) >>]

HandsE ==
    [i \in Seats |->
        CASE i = 0 -> << 411, 511, 131, 141, 151, 311, 312, 161 >>
          [] i = 1 -> << 412, 413, 321, 351 >>
          [] i = 2 -> << 512, 513, 514, 341 >>
          [] OTHER -> << 371, 381, 392, 393 >>]

LayoutE == [hands |-> HandsE, melds |-> MeldsE, current |-> 0, types |-> AllAI,
            deadWalls |-> {DeadWallD}]

\* the positions the decision source is consulted in
DecisionInit ==
    /\ \/ \E layout \in {l \in Layouts : l.types = AllAI},
             wall \in Suffixes(WallPools, MaxWall) :
             \E deadWall \in Suffixes(layout.deadWalls, MaxDeadWall) :
                state = Position(layout, layout.types, wall, deadWall)
       \/ state = Position(LayoutD, AllAI, WallD, DeadWallD)
       \/ state = Position(LayoutE, AllAI, WallD, DeadWallD)
    /\ last = Api("createGame", Null)

\* the first turn of a position, taken by the loop
FirstTurn ==
    /\ last.op = "createGame"
    /\ StepTurn

\* getAIDecision for a seat, a prevailing wind and an outcome of the remote
\* call; last keeps what it was given and what it and fallbackDecision answer
GetAIDecision ==
    /\ last.op # "getAIDecision"
    /\ \E i \in Seats :
           LET va == getValidActions(state, i)
           IN  /\ Consulted(state, i)
               /\ \E wind \in Range(allSeats), remote \in Remotes :
                      LET s == WithWind(state, wind)
                      IN  last' = [op |-> "getAIDecision",
                                   player |-> i,
                                   validActions |-> va,
                                   wind |-> wind,
                                   remote |-> remote,
                                   decision |-> getAIDecision(s, i, va, remote),
                                   fallback |-> fallbackDecision(s, i, va)]
    /\ UNCHANGED state

DecisionNext == FirstTurn \/ GetAIDecision

DecisionSpec == DecisionInit /\ [][DecisionNext]_vars

\* C29: given a non-empty list of legal actions, getAIDecision and
\* fallbackDecision answer with an element of the list whatever the remote
\* call does (a usable answer, an index out of range or unreadable, a status
\* that is not ok, an exception, a timeout, no key); whenever the remote call
\* gives no usable answer the action is the one fallbackDecision picks.
C29_DecisionSource ==
    (last.op = "getAIDecision" /\ last.validActions # << >>) =>
        /\ last.decision.ok
        /\ last.decision.action \in Range(last.validActions)
        /\ last.fallback.ok
        /\ last.fallback.action \in Range(last.validActions)
        /\ RemoteFails(last.remote, Len(last.validActions)) =>
               last.decision.action = last.fallback.action

\* seat 2, seated west, has been answered for on a discarded east wind with
\* east prevailing by a remote call naming an index out of range: the
\* fallback's claim of the scoring pong was returned
C29_Witness ==
    /\ last.op = "getAIDecision"
    /\ state.phase = "claimWindow"
    /\ tileKey(state.lastDiscard) = 51
    /\ last.player = 2
    /\ last.wind = "east"
    /\ Len(last.validActions) = 3
    /\ last.remote.apiKey
    /\ last.remote.fetch = "ok"
    /\ last.remote.content = [kind |-> "json", action |-> ActionField(FALSE, << 9 >>)]
    /\ last.decision.action = last.fallback.action
    /\ last.decision.action.type = "claimPong"

\* ---------------------------------------------------------------------------
\* Multi-round session (session module, payments module)
\* ---------------------------------------------------------------------------
\* Amounts are counted in tenths of a cent, so the default base of 0.20 is 200
\* and rounding to cents is rounding to a multiple of 10.  An optional field
\* (scoring, currentRound) is the empty sequence when absent and a sequence of
\* one element when present.

WINDS == << "east", "south", "west", "north" >>

DEFAULT_PAYMENT_CONFIG == [base |-> 200, taiCap |-> 5, shooterPays |-> TRUE]

RECURSIVE Pow2(_)
Pow2(n) == IF n <= 0 THEN 1 ELSE 2 * Pow2(n - 1)

Min2(a, b) == IF a < b THEN a ELSE b

Max2(a, b) == IF a > b THEN a ELSE b

taiToAmount(tai, config) ==
    LET effectiveTai == Min2(Max2(tai, 1), config.taiCap)
    IN  config.base * Pow2(effectiveTai - 1)

calculatePayments(result, config) ==
    IF result.type = "draw" \/ result.winnerIndex = Null \/ result.scoring = << >>
    THEN [deltas |-> [i \in Seats |-> 0], perLoserAmount |-> 0, winnerTotal |-> 0]
    ELSE LET tai == result.scoring[1].tai
             perLoserAmount == taiToAmount(tai, config)
             winnerIdx == result.winnerIndex
             isSelfDrawn == result.loserIndex = Null
             shooterIdx == result.loserIndex
             \* the later assignment wins when both fall on one index
             deltas == IF isSelfDrawn
                       THEN [i \in Seats |-> IF i = winnerIdx THEN perLoserAmount * 3
                                             ELSE 0 - perLoserAmount]
                       ELSE IF config.shooterPays
                       THEN [i \in Seats |-> IF i = shooterIdx THEN 0 - perLoserAmount * 3
                                             ELSE IF i = winnerIdx THEN perLoserAmount * 3
                                             ELSE 0]
                       ELSE [i \in Seats |-> IF i = shooterIdx THEN 0 - perLoserAmount
                                             ELSE IF i = winnerIdx THEN perLoserAmount
                                             ELSE 0]
         IN  [deltas |-> deltas, perLoserAmount |-> perLoserAmount,
              winnerTotal |-> deltas[winnerIdx]]

\* Math.round(x * 100) / 100: to the nearest cent, a half going up
roundToCents(x) == ((x + 5) \div 10) * 10

createSession(config) ==
    [config |-> config,
     scores |-> [i \in Seats |-> 0],
     rounds |-> << >>,
     dealerIndex |-> 0,
     prevailingWind |-> "east",
     dealerRotationCount |-> 0,
     completedWindCycles |-> 0,
     currentRound |-> << >>,
     finished |-> FALSE]

\* startNextRound without the check for a round in progress
startNextRoundOverRound(session, shuffled) ==
    IF session.finished
    THEN [ok |-> FALSE, session |-> session, events |-> << >>]
    ELSE LET gameState == WithWind(createGame(session.config.playerTypes,
                                              session.dealerIndex, shuffled),
                                   session.prevailingWind)
         IN  [ok |-> TRUE,
              session |-> [session EXCEPT !.currentRound = << gameState >>],
              gameState |-> gameState,
              events |-> << [type |-> "roundStarted",
                             roundNumber |-> Len(session.rounds) + 1,
                             dealerIndex |-> session.dealerIndex,
                             prevailingWind |-> session.prevailingWind] >>]

\* the shuffled tile set stands for the shuffle createGame makes
startNextRound(session, shuffled) ==
    IF session.finished \/ session.currentRound # << >>
    THEN [ok |-> FALSE, session |-> session, events |-> << >>]
    ELSE LET gameState == WithWind(createGame(session.config.playerTypes,
                                              session.dealerIndex, shuffled),
                                   session.prevailingWind)
         IN  [ok |-> TRUE,
              session |-> [session EXCEPT !.currentRound = << gameState >>],
              gameState |-> gameState,
              events |-> << [type |-> "roundStarted",
                             roundNumber |-> Len(session.rounds) + 1,
                             dealerIndex |-> session.dealerIndex,
                             prevailingWind |-> session.prevailingWind] >>]

indexOfWind(wind) == CHOOSE i \in 1..4 : WINDS[i] = wind

dealerWon(session, result) ==
    result.type = "win" /\ result.winnerIndex = session.dealerIndex

\* the rotation that ends the session at the first completed wind cycle
rotateDealerOneCycle(session) ==
    LET newRotationCount == session.dealerRotationCount + 1
        cycleDone == newRotationCount >= 4
    IN  [dealerIndex |-> (session.dealerIndex + 1) % 4,
         dealerRotationCount |-> IF cycleDone THEN 0 ELSE newRotationCount,
         completedWindCycles |-> session.completedWindCycles + (IF cycleDone THEN 1 ELSE 0),
         prevailingWind |-> session.prevailingWind,
         finished |-> cycleDone]

\* the rotation that keeps counting past the end of a wind cycle
rotateDealerWithoutReset(session) ==
    LET newRotationCount == session.dealerRotationCount + 1
        cycleDone == newRotationCount >= 4
        newCompletedCycles == session.completedWindCycles + (IF cycleDone THEN 1 ELSE 0)
        advance == cycleDone /\ newCompletedCycles < session.config.windRounds
    IN  [dealerIndex |-> (session.dealerIndex + 1) % 4,
         dealerRotationCount |-> newRotationCount,
         completedWindCycles |-> newCompletedCycles,
         prevailingWind |-> IF advance
                            THEN WINDS[(indexOfWind(session.prevailingWind) % 4) + 1]
                            ELSE session.prevailingWind,
         finished |-> cycleDone /\ ~advance]

\* the branch of processRoundResult taken when the dealer did not win
rotateDealer(session) ==
    LET newRotationCount == session.dealerRotationCount + 1
        cycleDone == newRotationCount >= 4
        newCompletedCycles == session.completedWindCycles + (IF cycleDone THEN 1 ELSE 0)
        advance == cycleDone /\ newCompletedCycles < session.config.windRounds
    IN  [dealerIndex |-> (session.dealerIndex + 1) % 4,
         dealerRotationCount |-> IF cycleDone THEN 0 ELSE newRotationCount,
         completedWindCycles |-> newCompletedCycles,
         prevailingWind |-> IF advance
                            THEN WINDS[(indexOfWind(session.prevailingWind) % 4) + 1]
                            ELSE session.prevailingWind,
         finished |-> cycleDone /\ ~advance]

processRoundResult(session, result) ==
    LET payments == calculatePayments(result, session.config.payment)
        scores == [i \in Seats |-> roundToCents(session.scores[i] + payments.deltas[i])]
        record == [roundNumber |-> Len(session.rounds) + 1,
                   result |-> result,
                   payments |-> payments,
                   dealerIndex |-> session.dealerIndex,
                   prevailingWind |-> session.prevailingWind]
        rotated == ~dealerWon(session, result)
        next == IF rotated THEN rotateDealer(session)
                ELSE [dealerIndex |-> session.dealerIndex,
                      dealerRotationCount |-> session.dealerRotationCount,
                      completedWindCycles |-> session.completedWindCycles,
                      prevailingWind |-> session.prevailingWind,
                      finished |-> FALSE]
        rounds == Append(session.rounds, record)
        events == << [type |-> "roundCompleted", record |-> record],
                     [type |-> "scoresUpdated", scores |-> scores] >>
                  \o (IF rotated
                      THEN << [type |-> "dealerRotated",
                               newDealerIndex |-> next.dealerIndex] >>
                      ELSE << >>)
                  \o (IF next.finished
                      THEN << [type |-> "sessionCompleted", finalScores |-> scores,
                               rounds |-> rounds] >>
                      ELSE << >>)
    IN  [session |-> [session EXCEPT !.scores = scores,
                                     !.rounds = rounds,
                                     !.dealerIndex = next.dealerIndex,
                                     !.prevailingWind = next.prevailingWind,
                                     !.dealerRotationCount = next.dealerRotationCount,
                                     !.completedWindCycles = next.completedWindCycles,
                                     !.currentRound = << >>,
                                     !.finished = next.finished],
         events |-> events]

\* rounds processed in one behaviour after the initial session
MaxRounds == 2

\* drawn rounds already played when the behaviour starts
MaxPriorDraws == 11

SessionConfigs ==
    { [playerTypes |-> AllAI, payment |-> p, windRounds |-> w] :
        p \in { DEFAULT_PAYMENT_CONFIG, [base |-> 4, taiCap |-> 2, shooterPays |-> FALSE] },
        w \in {1, 2, 3} }

DrawnRound == [type |-> "draw", winnerIndex |-> Null, loserIndex |-> Null, scoring |-> << >>]

\* the results a round can end with: a draw, a win of any seat, self-drawn with
\* 3 tai or off the discard of the next seat with 1 tai, a win without scoring,
\* and the win claimWin grants to the discarder on its own discard
RoundResults ==
    {DrawnRound} \cup
    { [type |-> "win", winnerIndex |-> w, scoring |-> << [tai |-> IF selfDrawn THEN 3 ELSE 1] >>,
       loserIndex |-> IF selfDrawn THEN Null ELSE (w + 1) % 4] :
        w \in Seats, selfDrawn \in BOOLEAN } \cup
    { [type |-> "win", winnerIndex |-> 0, scoring |-> << >>, loserIndex |-> Null],
      [type |-> "win", winnerIndex |-> 1, scoring |-> << [tai |-> 1] >>, loserIndex |-> 1] }

\* the order of the tiles the round is dealt from
SessionShuffle == shuffle(createAllTiles, 3, 0)

RECURSIVE AfterDraws(_, _)
AfterDraws(session, n) ==
    IF n = 0 THEN session
    ELSE AfterDraws(processRoundResult(session, DrawnRound).session, n - 1)

\* a session is unfinished while fewer than 4 * windRounds rotations were made
SessionInit ==
    /\ \E config \in SessionConfigs, n \in 0..MaxPriorDraws :
           /\ n < 4 * config.windRounds
           /\ state = AfterDraws(createSession(config), n)
    /\ last = [op |-> "createSession", played |-> 0]

StartNextRound ==
    /\ last.played < MaxRounds
    /\ LET r == startNextRound(state, SessionShuffle)
       IN  /\ r.ok
           /\ state' = r.session
           /\ last' = [op |-> "startNextRound", played |-> last.played,
                       session |-> state, gameState |-> r.gameState,
                       events |-> r.events]

ProcessRoundResult ==
    /\ last.played < MaxRounds
    /\ \E result \in RoundResults :
           LET r == processRoundResult(state, result)
           IN  /\ state' = r.session
               /\ last' = [op |-> "processRoundResult", played |-> last.played + 1,
                           session |-> state, result |-> result, events |-> r.events]

SessionNext == StartNextRound \/ ProcessRoundResult

SessionSpec == SessionInit /\ [][SessionNext]_vars

EventsOfType(events, type) == { i \in 1..Len(events) : events[i].type = type }

Rotations(session) ==
    Cardinality({ i \in 1..Len(session.rounds) :
                    ~(/\ session.rounds[i].result.type = "win"
                      /\ session.rounds[i].result.winnerIndex = session.rounds[i].dealerIndex) })

NextWind(wind) ==
    CASE wind = "east" -> "south"
      [] wind = "south" -> "west"
      [] wind = "west" -> "north"
      [] wind = "north" -> "east"

\* C31: with windRounds = n the session becomes finished exactly at the
\* processRoundResult call that produces the (4 x n)-th dealer rotation and not
\* earlier; that call leaves completedWindCycles = n and emits a sessionCompleted
\* event; the call that produces an earlier (4 x k)-th rotation, k < n, resets the
\* rotation count to 0, counts k completed cycles and moves the prevailing wind
\* to the next wind; no other call changes the prevailing wind.
C31_SessionEnd ==
    (last.op = "processRoundResult" /\ Rotations(last.session) < 4 * state.config.windRounds) =>
        LET before == last.session
            n == state.config.windRounds
            made == Rotations(state)
            rotated == made = Rotations(before) + 1
            completed == EventsOfType(last.events, "sessionCompleted")
        IN  /\ ~before.finished
            /\ state.finished <=> (rotated /\ made = 4 * n)
            /\ state.finished =>
                   /\ state.completedWindCycles = n
                   /\ state.dealerRotationCount = 0
                   /\ completed = {Len(last.events)}
                   /\ last.events[Len(last.events)].rounds = state.rounds
                   /\ last.events[Len(last.events)].finalScores = state.scores
            /\ ~state.finished => completed = {}
            /\ (rotated /\ made % 4 = 0 /\ made < 4 * n) =>
                   /\ state.dealerRotationCount = 0
                   /\ state.completedWindCycles = made \div 4
                   /\ state.prevailingWind = NextWind(before.prevailingWind)
            /\ ~(rotated /\ made % 4 = 0 /\ made < 4 * n) =>
                   state.prevailingWind = before.prevailingWind
            /\ state.completedWindCycles = made \div 4
            /\ state.dealerRotationCount = made % 4

\* a session of three wind rounds finished at its twelfth rotation, a seat other
\* than the dealer winning the last round, two winds after the first
C31_Witness ==
    /\ last.op = "processRoundResult"
    /\ state.config.windRounds = 3
    /\ last.result.type = "win"
    /\ Rotations(last.session) = 11
    /\ Rotations(state) = 12
    /\ ~last.session.finished
    /\ state.finished
    /\ state.completedWindCycles = 3
    /\ state.prevailingWind = "west"
    /\ last.events[Len(last.events)].type = "sessionCompleted"

\* C32: startNextRound fails, leaving the session unchanged, when the session is
\* finished or a round is in progress; otherwise it succeeds and changes only
\* currentRound, which becomes a new game whose dealerIndex and
\* currentPlayerIndex are the session's dealerIndex.  So a round is started only
\* in an unfinished session with no round in progress.
C32_RoundProtocol ==
    /\ LET r == startNextRound(state, SessionShuffle)
       IN  IF state.finished \/ state.currentRound # << >>
           THEN ~r.ok /\ r.session = state
           ELSE /\ r.ok
                /\ Len(r.session.currentRound) = 1
                /\ r.session.currentRound[1] = r.gameState
                /\ r.gameState.dealerIndex = state.dealerIndex
                /\ r.gameState.currentPlayerIndex = state.dealerIndex
                /\ r.gameState.phase = "postDraw"
                /\ r.session = [state EXCEPT !.currentRound = << r.gameState >>]
    /\ last.op = "startNextRound" =>
           /\ ~last.session.finished
           /\ last.session.currentRound = << >>
           /\ state.currentRound = << last.gameState >>
           /\ last.gameState.dealerIndex = last.session.dealerIndex
           /\ last.gameState.currentPlayerIndex = last.session.dealerIndex

\* a round was started for dealer 2 after earlier rounds, and starting another
\* one while it is in progress fails
C32_Witness ==
    /\ last.op = "startNextRound"
    /\ last.played > 0
    /\ state.dealerIndex = 2
    /\ state.currentRound # << >>
    /\ state.currentRound[1].dealerIndex = 2
    /\ state.currentRound[1].currentPlayerIndex = 2
    /\ ~state.finished
    /\ ~startNextRound(state, SessionShuffle).ok

SumOfSeats(f) == f[0] + f[1] + f[2] + f[3]

PaymentsOf(events) == events[1].record.payments

\* C33: the four deltas calculatePayments returns for a processed round sum to
\* zero, all of them zero for a draw, and the cumulative scores of the session
\* sum to zero after every processed round.
C33_ZeroSumPayments ==
    last.op = "processRoundResult" =>
        /\ PaymentsOf(last.events) = calculatePayments(last.result, state.config.payment)
        /\ SumOfSeats(PaymentsOf(last.events).deltas) = 0
        /\ last.result.type = "draw" =>
               \A i \in Seats : PaymentsOf(last.events).deltas[i] = 0
        /\ SumOfSeats(state.scores) = 0

\* the same for payments in whole cents and a winner other than the discarder
C33_ZeroSumWholeCents ==
    (/\ last.op = "processRoundResult"
     /\ state.config.payment.base % 10 = 0
     /\ \A i \in 1..Len(state.rounds) :
            \/ state.rounds[i].result.type = "draw"
            \/ state.rounds[i].result.loserIndex # state.rounds[i].result.winnerIndex)
    => /\ SumOfSeats(PaymentsOf(last.events).deltas) = 0
       /\ SumOfSeats(state.scores) = 0

ClaimOps == {"claimPong", "claimChow", "claimKong", "claimWin"}

\* a claim is applied to the pending discard
ClaimApplied == state.phase = "claimWindow" /\ last'.op \in ClaimOps

\* seat i was asked for its response in the step the record c describes: the
\* game loop asked it, or it is the seat whose claim was submitted through the
\* controller
WasAsked(c, i) ==
    \/ c.via = "step" /\ i \in c.polled
    \/ c.via = "api" /\ i = c.player

\* C34: in claimWindow no claim (pong, chow, kong or win) is applied before every
\* non-discarding seat that has a legal action other than pass has been asked
\* for its response, whether the claim comes from the game loop or from a seat
\* through GameController (as GameBridge submits the human seat's claims).
C34_PollBeforeApply ==
    [][ClaimApplied =>
          \A i \in Seats : HasLegalClaim(state, i) => WasAsked(last', i)]_vars

\* the same for the claims the game loop applies
C34_LoopPollsBeforeApply ==
    [][(ClaimApplied /\ last'.via = "step") =>
          \A i \in Seats : HasLegalClaim(state, i) => WasAsked(last', i)]_vars

\* ---------------------------------------------------------------------------
\* GameBridge over GameController: the animated loop and the human seat
\* ---------------------------------------------------------------------------
\* state is the bridge: game (GameController.state), advancing (the flag of
\* advanceAnimated), loop (where the advance loop stands: idle, step when a call
\* of GameController.step is in flight, sleep between two steps), captured (the
\* state the step in flight was called with) and hasKey (MINIMAX_API_KEY is set).

\* the outcomes of stepGame(s): one for every answer getAIDecision may give
StepOutcome(r, done) ==
    [thrown |-> ~r.ok, state |-> r.state, events |-> r.events, done |-> done]

stepGame(s) ==
    IF stepPauses(s)
    THEN {[thrown |-> FALSE, state |-> s, events |-> << >>, done |-> TRUE]}
    ELSE IF s.phase = "claimWindow"
    THEN {StepOutcome(resolveClaimWindow(s, << d0, d1, d2, d3 >>), FALSE) :
              d0 \in Responses(s, 0), d1 \in Responses(s, 1),
              d2 \in Responses(s, 2), d3 \in Responses(s, 3)}
    ELSE IF s.phase = "draw"
    THEN {StepOutcome(drawTile(s), FALSE)}
    ELSE LET validActions == getValidActions(s, s.currentPlayerIndex)
         IN  IF validActions = << >>
             THEN {[thrown |-> TRUE, state |-> s, events |-> << >>, done |-> FALSE]}
             ELSE {StepOutcome(ApplyTurnAction(s, action), FALSE) :
                       action \in Decisions(validActions)}

\* the step awaits the answer of the remote service: a key is set and
\* getAIDecision is given more than one action for some seat
AwaitsRemote(s) ==
    /\ ~stepPauses(s)
    /\ \E i \in Seats : Consulted(s, i) /\ Len(getValidActions(s, i)) > 1

\* the method of GameBridge an action of the human seat (seat 0) is sent to
HumanCall(s, action) ==
    CASE action.type = "discard" -> discardTile(s, action.tiles[1])
      [] action.type = "claimPong" -> claimPong(s, 0)
      [] action.type = "claimChow" -> claimChow(s, 0, action.tiles)
      [] action.type = "claimKong" -> claimKong(s, 0)
      [] action.type = "claimWin" -> claimWin(s, 0)
      [] action.type = "pass" -> passClaim(s)
      [] action.type = "declareSelfWin" -> declareSelfWin(s)
      [] action.type = "declareKong" -> declareKong(s, action.tiles)
      [] OTHER -> promotePungToKong(s, action.tiles[1])

\* render: the screen draws for seat 0 as soon as it shows seat 0 in the draw phase
render(s) ==
    IF s.phase = "draw" /\ s.currentPlayerIndex = 0
    THEN LET r == drawTile(s) IN IF r.ok THEN r.state ELSE s
    ELSE s

\* As the third position, seat 1 holding two green dragons: it can pong the
\* green dragon of seat 3 while seat 0 can only pass.
HandsF == [HandsC EXCEPT ![1] = << 362, 363, 413, 414 >>]

BridgeLayouts ==
    { [hands |-> HandsC, melds |-> MeldsA, current |-> 3, types |-> HumanAtSeat0],
      [hands |-> HandsF, melds |-> MeldsA, current |-> 3, types |-> HumanAtSeat0] }

\* the screen starts the round and calls advanceAnimated, whose first step is
\* in flight
BridgeInit ==
    /\ \E layout \in BridgeLayouts, wall \in Suffixes(WallPools, MaxWall), hasKey \in BOOLEAN :
           LET game == Position(layout, layout.types, wall, << >>)
           IN  state = [game |-> game, advancing |-> TRUE, loop |-> "step",
                        captured |-> << game >>, hasKey |-> hasKey]
    /\ last = [op |-> "startRound", at |-> "idle", stale |-> FALSE]

\* GameController.step returns: the result computed from the state the step
\* was called with is stored, the screen is rendered, and the loop ends or sleeps
StepReturns ==
    /\ state.loop = "step"
    /\ \E out \in stepGame(state.captured[1]) :
           /\ state' = [state EXCEPT
                           !.game = IF out.thrown THEN @ ELSE render(out.state),
                           !.advancing = ~(out.thrown \/ out.done),
                           !.loop = IF out.thrown \/ out.done THEN "idle" ELSE "sleep",
                           !.captured = << >>]
           /\ last' = [op |-> IF out.thrown THEN "stepThrown" ELSE "step", at |-> "step",
                       stale |-> state.game # state.captured[1]]

\* the sleep between two animated steps ends and the next step is called
StepCalled ==
    /\ state.loop = "sleep"
    /\ state' = [state EXCEPT !.loop = "step", !.captured = << state.game >>]
    /\ last' = [op |-> "wake", at |-> "sleep", stale |-> FALSE]

\* The human seat uses one of the actions the screen offers it.  The bridge
\* applies it through the controller and calls advanceAnimated, which returns
\* at once when a loop is advancing.  While a step is in flight the screen
\* handles input only if the step awaits the remote service.
HumanAction ==
    /\ state.game.phase # "roundOver"
    /\ state.loop = "step" => (state.hasKey /\ AwaitsRemote(state.captured[1]))
    /\ \E action \in Range(getValidActions(state.game, 0)) :
           LET r == HumanCall(state.game, action)
           IN  /\ r.ok
               /\ state' = IF state.advancing
                           THEN [state EXCEPT !.game = r.state]
                           ELSE [state EXCEPT !.game = r.state, !.advancing = TRUE,
                                              !.loop = "step", !.captured = << r.state >>]
               /\ last' = [op |-> OpOf(action.type), at |-> state.loop, stale |-> FALSE]

BridgeNext == StepReturns \/ StepCalled \/ HumanAction

BridgeSpec == BridgeInit /\ [][BridgeNext]_vars

\* C35: the bridge serializes the operations on one game: no transition of the
\* human seat is applied while a step of the advance loop is in flight or the
\* loop sleeps between two steps, so the state a step stores was computed from
\* the state it replaces, and at most one advance loop runs at a time.
C35_SerializedAccess ==
    [][/\ last'.op \notin {"step", "stepThrown", "wake"} => last'.at = "idle"
       /\ last'.op = "step" => ~last'.stale
       /\ state'.advancing <=> state'.loop # "idle"]_vars

\* a step stored a result computed from a state that had been replaced meanwhile
C35_NoLostTransition == [][last'.op = "step" => ~last'.stale]_vars

\* one advance loop at a time
C35_OneLoop == state.advancing <=> state.loop # "idle"

\* the transition an action listed for a seat is carried out by
ApplyFor(s, seat, action) ==
    CASE action.type = "discard" -> discardTile(s, action.tiles[1])
      [] action.type = "declareKong" -> declareKong(s, action.tiles)
      [] action.type = "promotePungToKong" -> promotePungToKong(s, action.tiles[1])
      [] action.type = "declareSelfWin" -> declareSelfWin(s)
      [] action.type = "claimPong" -> claimPong(s, seat)
      [] action.type = "claimChow" -> claimChow(s, seat, action.tiles)
      [] action.type = "claimKong" -> claimKong(s, seat)
      [] action.type = "claimWin" -> claimWin(s, seat)
      [] action.type = "pass" -> passClaim(s)

ActionTypes ==
    {"discard", "declareKong", "promotePungToKong", "declareSelfWin", "claimPong",
     "claimChow", "claimKong", "claimWin", "pass"}

\* every action listed for a seat is accepted by its transition
LegalActionsAccepted ==
    \A seat \in Seats :
        LET validActions == getValidActions(state, seat)
        IN  \A k \in 1..Len(validActions) :
                /\ validActions[k].type \in ActionTypes
                /\ ApplyFor(state, seat, validActions[k]).ok
                /\ validActions[k].type \in {"discard", "declareKong", "promotePungToKong",
                                             "declareSelfWin"}
                       => seat = state.currentPlayerIndex
                /\ validActions[k].type \in {"claimPong", "claimChow", "claimKong",
                                             "claimWin", "pass"}
                       => seat # state.lastDiscardPlayerIndex

\* C36: in every reachable state every action getValidActions returns for a
\* seat is accepted by its transition when applied for that seat to that state;
\* a turn action is listed for the current player only, a claim or a pass only
\* for a seat other than the discarder.
C36_LegalActionSoundness == []LegalActionsAccepted

\* a claim window in which one seat is offered a win, a chow and a pass and
\* another seat a pong and a kong, all of which their transitions accept
C36_Witness ==
    /\ state.phase = "claimWindow"
    /\ \E a, b \in Seats :
           /\ a # b
           /\ {"claimWin", "claimChow", "pass"}
                  \subseteq {x.type : x \in Range(getValidActions(state, a))}
           /\ {"claimPong", "claimKong"}
                  \subseteq {x.type : x \in Range(getValidActions(state, b))}
           /\ \A x \in Range(getValidActions(state, a)) : ApplyFor(state, a, x).ok
           /\ \A x \in Range(getValidActions(state, b)) : ApplyFor(state, b, x).ok

\* C37: in every reachable state with phase claimWindow, lastDiscard and
\* lastDiscardPlayerIndex are set, lastDiscardPlayerIndex is the current player
\* and lastDiscard is the last tile of that player's discards; in every
\* reachable state with phase draw, postDraw or discard both are null.
C37_PendingDiscard ==
    /\ state.phase = "claimWindow" =>
           /\ state.lastDiscard # Null
           /\ state.lastDiscardPlayerIndex # Null
           /\ state.lastDiscardPlayerIndex = state.currentPlayerIndex
           /\ LET pile == state.players[state.lastDiscardPlayerIndex].discards
              IN  pile # << >> /\ pile[Len(pile)] = state.lastDiscard
    /\ state.phase \in {"draw", "postDraw", "discard"} =>
           /\ state.lastDiscard = Null
           /\ state.lastDiscardPlayerIndex = Null

\* a second claim window of the round: a seat claimed the first discard, which
\* left the discarder's pile, and its own discard is now pending
C37_Witness ==
    /\ state.phase = "claimWindow"
    /\ last.op = "discardTile"
    /\ \E k \in 1..Len(state.players[state.currentPlayerIndex].openMelds) :
           LET meld == state.players[state.currentPlayerIndex].openMelds[k]
           IN  /\ ~meld.concealed
               /\ \E t \in Range(meld.tiles) :
                      \E layout \in Layouts : \E i \in Seats \ {state.currentPlayerIndex} :
                          t \in Range(layout.hands[i])
    /\ state.lastDiscard =
           state.players[state.currentPlayerIndex].discards[
               Len(state.players[state.currentPlayerIndex].discards)]

\* the tile ids held in the hands, melds, bonus piles, discard piles, live wall
\* and dead wall
ZoneTileIds(s) ==
    UNION {Range(s.players[i].handTiles) \cup MeldTiles(s.players[i].openMelds)
               \cup Range(s.players[i].bonusTiles) \cup Range(s.players[i].discards) :
           i \in Seats}
        \cup Range(s.wall) \cup Range(s.deadWall)

\* C38: no tile id occurs twice, within a zone or in two zones: the hands, melds,
\* bonus piles, discard piles, live wall and dead wall hold as many distinct
\* tile ids as they hold tiles.
C38_NoTileDuplication ==
    Cardinality(ZoneTileIds(state)) = ZoneTotal(state) + DiscardTotal(state)

\* a discard claimed for a pung or kong: in the claimant's meld, on no pile
C38_Witness ==
    /\ last.op \in {"claimPong", "claimKong"}
    /\ LET melds == state.players[last.player].openMelds
           claimed == melds[Len(melds)].tiles[1]
       IN  /\ \A i \in Seats : claimed \notin Range(state.players[i].discards)
           /\ \E i \in Seats \ {last.player} : state.players[i].discards # << >>
    /\ \E i \in Seats : \E k \in 1..Len(state.players[i].openMelds) :
          state.players[i].openMelds[k].concealed

\* the bonus tiles of a sequence, in order
BonusOf(seq) == SelectSeq(seq, isBonus)

\* the other tiles of a sequence, in order
PlainOf(seq) == SelectSeq(seq, LAMBDA t : ~isBonus(t))

\* an ordinary draw by seat p from s to t: tiles leave the front of the live
\* wall only, one after another until one is not a bonus tile or the wall is
\* empty; the bonus tiles go to p's bonus pile, the other tile to p's hand
DrawnFromFront(s, t, p) ==
    LET n == Len(s.wall) - Len(t.wall)
        drawn == SubSeq(s.wall, 1, n)
    IN  /\ t.deadWall = s.deadWall
        /\ n >= 0
        /\ t.wall = SubSeq(s.wall, n + 1, Len(s.wall))
        /\ s.wall # << >> => n >= 1
        /\ \A i \in 1..(n - 1) : isBonus(drawn[i])
        /\ t.wall # << >> => ~isBonus(drawn[n])
        /\ t.players[p].bonusTiles = s.players[p].bonusTiles \o BonusOf(drawn)
        /\ t.players[p].handTiles = s.players[p].handTiles \o PlainOf(drawn)

\* a kong replacement from s to t: tiles leave the back of the dead wall only
ReplacedFromBack(s, t) ==
    /\ t.wall = s.wall
    /\ IsPrefix(t.deadWall, s.deadWall)
    /\ s.deadWall # << >> => t.deadWall # s.deadWall

\* C39: drawTile takes tiles off the front of the live wall only, replacing the
\* bonus tiles it meets from the live wall, and leaves the dead wall alone; a kong
\* formation (declareKong, promotePungToKong, claimKong) takes tiles off the back
\* of the dead wall only and leaves the live wall alone; every other transition
\* leaves both walls as they were.
C39_WallDiscipline ==
    [][CASE last'.op = "drawTile" -> DrawnFromFront(state, state', state.currentPlayerIndex)
         [] last'.op \in KongOps -> ReplacedFromBack(state, state')
         [] OTHER -> state'.wall = state.wall /\ state'.deadWall = state.deadWall]_vars

\* after a draw that met a flower at the front of the live wall: the flower is
\* set aside, the next wall tile is in the hand, the dead wall is still there
C39_Witness ==
    /\ last.op = "drawTile"
    /\ state.phase = "postDraw"
    /\ state.deadWall # << >>
    /\ LET player == state.players[state.currentPlayerIndex]
       IN  /\ player.bonusTiles # << >>
           /\ player.bonusTiles[Len(player.bonusTiles)] = 631
           /\ player.handTiles[Len(player.handTiles)] = 291

\* ------------------------------------------------------------------------
\* A round run through SessionController: startRound creates the
\* GameController of the round and listens to its events; every gameOver
\* event is handed to completeRound, which appends the round's record
\* ------------------------------------------------------------------------

GameOverCount(events) == Cardinality({i \in 1..Len(events) : events[i] = "gameOver"})

\* the calls of the engine a GameController method can make on game state g,
\* with what they return
EngineCalls(g) ==
    LET handTiles(i) == Range(g.players[i].handTiles)
        anyHandTile == UNION {handTiles(i) : i \in Seats}
        call(op, r) == [op |-> op, r |-> r]
    IN  {call("drawTile", drawTile(g)), call("passClaim", passClaim(g)),
         call("declareSelfWin", declareSelfWin(g))}
            \cup {call("discardTile", discardTile(g, t)) : t \in anyHandTile}
            \cup {call("promotePungToKong", promotePungToKong(g, t)) : t \in anyHandTile}
            \cup {call("declareKong", declareKong(g, Four(tileKey(t)))) :
                      t \in {x \in anyHandTile : ~isBonus(x)}}
            \cup UNION {{call("claimPong", claimPong(g, p)), call("claimKong", claimKong(g, p)),
                         call("claimWin", claimWin(g, p))} : p \in Seats}
            \cup UNION {{call("claimChow", claimChow(g, p, << a, b >>)) :
                             a \in handTiles(p), b \in handTiles(p)} : p \in Seats}

\* the listener of startRound on the events a controller emits: completeRound
\* for every gameOver event, with the result the event carries (the result of
\* the state returned with it); processRoundResult appends one record
completeRounds(controller, r) ==
    IF GameOverCount(r.events) = 0 THEN [controller EXCEPT !.game = r.state]
    ELSE [game |-> r.state,
          rounds |-> controller.rounds
                         \o [k \in 1..GameOverCount(r.events) |->
                                [roundNumber |-> Len(controller.rounds) + k,
                                 result |-> r.state.result]],
          currentGame |-> FALSE]

\* a discard is followed: the wall is short, or the round is at its first discards
DiscardFollowedIn(g) == Len(g.wall) <= MaxWall \/ DiscardsMade(g) < MaxDiscards

\* startRound has been called on a new session
RoundInit ==
    /\ \/ \E layout \in Layouts, wall \in Suffixes(WallPools, MaxWall) :
             \E deadWall \in Suffixes(layout.deadWalls, MaxDeadWall) :
                 state = [game |-> Position(layout, layout.types, wall, deadWall),
                          rounds |-> << >>, currentGame |-> TRUE]
       \/ state = [game |-> DealtPosition, rounds |-> << >>, currentGame |-> TRUE]
    /\ last = [op |-> "startRound", events |-> << >>, paused |-> FALSE]

\* a method of the round's GameController is called and returns
ControllerCall ==
    \E c \in EngineCalls(state.game) :
        /\ c.r.ok
        /\ c.op = "discardTile" => DiscardFollowedIn(state.game)
        /\ state' = completeRounds(state, c.r)
        /\ last' = [op |-> c.op, events |-> c.r.events, paused |-> FALSE]

\* GameController.step is called and returns
ControllerStep ==
    \E out \in stepGame(state.game) :
        /\ ~out.thrown
        /\ out.state.phase = "claimWindow" /\ state.game.phase # "claimWindow"
               => DiscardFollowedIn(state.game)
        /\ state' = completeRounds(state, out)
        /\ last' = [op |-> "step", events |-> out.events, paused |-> out.done]

RoundNext == ControllerCall \/ ControllerStep

RoundSpec == RoundInit /\ [][RoundNext]_vars

\* C40: the events returned by a transition hold a gameOver event exactly when the
\* state returned is in phase roundOver; the event is the last of the list and the
\* only one of its type; over a round it is emitted once, so the session holds no
\* round record while the round is played and exactly one, with the result of
\* the final state, once the round is over.
C40_RoundOverEvent ==
    [][LET events == last'.events
           n == GameOverCount(events)
       IN  /\ ~last'.paused => (n >= 1 <=> state'.game.phase = "roundOver")
           /\ n >= 1 => n = 1 /\ events[Len(events)] = "gameOver"
           /\ state'.rounds =
                  IF state'.game.phase = "roundOver"
                  THEN << [roundNumber |-> 1, result |-> state'.game.result] >>
                  ELSE << >>
           /\ state'.currentGame <=> state'.game.phase # "roundOver"]_vars

\* a round ended by a kong whose replacement met only a flower in the dead wall:
\* the flower is set aside and the one record of the round holds the draw
C40_Witness ==
    /\ last.op \in KongOps
    /\ Len(last.events) >= 4
    /\ last.events[Len(last.events)] = "gameOver"
    /\ state.game.phase = "roundOver"
    /\ state.rounds = << [roundNumber |-> 1, result |-> DrawResult] >>

====
